---------------------------- MODULE Spec2Model ----------------------------
(***************************************************************************)
(* Verification model of the outbreak dashboard front end:                 *)
(*   - getConvexHull (frontend/utils/convexHull.ts) and the clusterHulls   *)
(*     memo of ClusterMap that calls it,                                   *)
(*   - the marker features ClusterMap renders (featuresToRender,           *)
(*     mergedFeatures),                                                    *)
(*   - the risk cards RiskSidebar renders,                                 *)
(*   - the polling of Dashboard (app/page.tsx, fetchDashboardData),        *)
(*   - ReportModal and the reports effect of ClusterMap,                   *)
(*   - SimulatorPanel.runSimulation and PredictionChart,                   *)
(*   - LiveAlerts with the Alert Generator it reads from, and the Report   *)
(*     Trust Scorer, the two modelled from the specification,              *)
(*   - SymptomChecker.calculateRisk and the HospitalPortal mount effect.   *)
(* Each component has its own variables and its own specification; the     *)
(* actions of one component leave the variables of the others unchanged.   *)
(***************************************************************************)
EXTENDS Integers, Sequences, FiniteSets, TLC

VARIABLES
    \* ---- convex hull of one cluster (ClusterMap.clusterHulls) ----
    points,        \* the member coordinates of the cluster, in roster order
    boundary,      \* positions of the hull entry computed from points
    \* ---- RiskSidebar ----
    riskClusters,  \* the clusters prop
    riskCards,     \* the cards rendered from it, top to bottom
    \* ---- ClusterMap markers ----
    mapClusters,   \* the clusters prop
    mapHospitals,  \* the hospitals prop
    markers,       \* mergedFeatures, one entry per rendered Marker
    \* ---- Dashboard polling ----
    snapshot,      \* number of the analysis snapshot the server has published
    polls,         \* the dashboard requests issued so far, in order of issue
    stats,         \* Dashboard state: stats
    clusters,      \* Dashboard state: clusters
    network,       \* Dashboard state: network
    hospitals,     \* Dashboard state: hospitals
    loading,       \* Dashboard state: loading
    \* ---- ReportModal and the reports layer of ClusterMap ----
    rmOpen,        \* the isOpen prop (Dashboard state showReport)
    rmStep,        \* ReportModal state: step
    rmSymptoms,    \* ReportModal state: symptoms, in the order they were picked
    rmCoords,      \* ReportModal state: coords
    rmLoading,     \* ReportModal state: loading
    rmTrustScore,  \* ReportModal state: trustScore
    rmAlert,       \* the last alert() shown by ReportModal
    geo,           \* the browser's geolocation: support, pending request
    submissions,   \* the POST /api/public/report requests sent so far
    serverReports, \* the community reports the server has stored
    mapFetch,      \* the GET /api/public/reports request ClusterMap sends on mount
    mapReports,    \* ClusterMap state: reports
    \* ---- SimulatorPanel ----
    simData,       \* SimulatorPanel state: data
    simLoading,    \* SimulatorPanel state: loading
    simRequest,    \* the POST /api/simulation/predict request of runSimulation
    \* ---- PredictionChart ----
    chartData,     \* PredictionChart state: chartData
    chartRequest,  \* the GET /api/hospital/predict request of the effect
    \* ---- Alert Generator and LiveAlerts ----
    alertHistory,  \* per evaluation cycle, the (scope, rule) conditions that held
    alertLast,     \* per (scope, rule), the cycle of its last alert
    serverAlerts,  \* the alerts raised so far, oldest first
    alertPoll,     \* the GET /api/alerts/active request of LiveAlerts
    liveAlerts,    \* LiveAlerts state: alerts
    \* ---- Report Trust Scorer ----
    recentReports, \* per fingerprint, its stored reports of the last minute
    verdict,       \* the decision on the report scored last
    \* ---- SymptomChecker ----
    scOpen,        \* the isOpen prop (Dashboard state showChecker)
    scStep,        \* SymptomChecker state: step
    scAnswers,     \* SymptomChecker state: answers
    scRisk,        \* the risk the result step displays
    \* ---- HospitalPortal mount effect ----
    storage,       \* localStorage: token and role
    portal,        \* the mounted HospitalPortal, what its mount effect read and did
    portalLive,    \* the polling intervals that are set and not cleared
    \* ---- LoginPage ----
    lpIsLogin,     \* LoginPage state: isLogin (sign-in mode, else registration)
    lpUsername,    \* LoginPage state: username
    lpPassword,    \* LoginPage state: password
    lpError,       \* LoginPage state: error
    lpSuccessMsg,  \* LoginPage state: successMsg
    lpLoading,     \* LoginPage state: loading
    lpRequest,     \* the authentication request of the running handleSubmit
    lpStorage,     \* localStorage: token, role and username
    lpLocation,    \* window.location: the page the browser shows
    \* ---- HospitalPortal.fetchData ----
    fdEntries,     \* HospitalPortal state: entries
    fdCapacity,    \* HospitalPortal state: capacity
    fdAnalytics,   \* HospitalPortal state: analytics
    fdLoading,     \* HospitalPortal state: loading
    fdToken,       \* localStorage: the token item
    fdRoute,       \* the route the router shows
    fdCalls,       \* the running invocations of fetchData
    \* ---- Dashboard: time-lapse playback and the modal flags ----
    dates,         \* Dashboard state: dates, the sorted dates of the history
    sliderIndex,   \* Dashboard state: sliderIndex
    isPlaying,     \* Dashboard state: isPlaying
    playInterval,  \* the 800 ms interval of the playback effect is set
    effectDue,     \* a render was committed whose playback effect has not run
    historyFetch,  \* the history request of the mount effect
    showSim,       \* Dashboard state: showSim
    \* ---- HospitalPortal: debounced hospital search ----
    searchQuery,   \* HospitalPortal state: searchQuery
    searchResults, \* HospitalPortal state: searchResults
    isSearching,   \* HospitalPortal state: isSearching
    timers,        \* the debounce timers that are set and not cleared
    sinceChange,   \* milliseconds since searchQuery last changed, up to Debounce
    searchCount,   \* the search requests sent so far
    searches,      \* the search requests in flight
    \* ---- ERPSimulator: the auto-simulation interval ----
    isSimulating,  \* ERPSimulator state: isSimulating
    simSpeed,      \* ERPSimulator state: simSpeed
    intervalRef,   \* intervalRef.current: the id of the last interval set, or Null
    liveIntervals, \* the intervals that are set and not cleared, with their delay
    started,       \* the calls of setInterval so far
    generated,     \* the patient records generated by the simulation so far
    erpMounted     \* ERPSimulator is mounted

hullVars == <<points, boundary>>
riskVars == <<riskClusters, riskCards>>
mapVars  == <<mapClusters, mapHospitals, markers>>
dashVars == <<snapshot, polls, stats, clusters, network, hospitals, loading>>
reportVars == <<rmOpen, rmStep, rmSymptoms, rmCoords, rmLoading, rmTrustScore,
                rmAlert, geo, submissions, serverReports, mapFetch, mapReports>>
simVars  == <<simData, simLoading, simRequest>>
chartVars == <<chartData, chartRequest>>
alertVars == <<alertHistory, alertLast, serverAlerts, alertPoll, liveAlerts>>
trustVars == <<recentReports, verdict>>
checkerVars == <<scOpen, scStep, scAnswers, scRisk>>
portalVars == <<storage, portal, portalLive>>
loginVars == <<lpIsLogin, lpUsername, lpPassword, lpError, lpSuccessMsg,
               lpLoading, lpRequest, lpStorage, lpLocation>>
fetchVars == <<fdEntries, fdCapacity, fdAnalytics, fdLoading, fdToken,
               fdRoute, fdCalls>>
pageVars == <<dates, sliderIndex, isPlaying, playInterval, effectDue,
              historyFetch, showSim>>
searchVars == <<searchQuery, searchResults, isSearching, timers, sinceChange,
                searchCount, searches>>
erpVars == <<isSimulating, simSpeed, intervalRef, liveIntervals, started,
             generated, erpMounted>>
vars == <<hullVars, riskVars, mapVars, dashVars, reportVars, simVars,
          chartVars, alertVars, trustVars, checkerVars, portalVars,
          loginVars, fetchVars, pageVars, searchVars, erpVars>>

\* What the actions of one component leave alone.
othersHull == <<riskVars, mapVars, dashVars, reportVars, simVars, chartVars,
                alertVars, trustVars, checkerVars, portalVars, loginVars,
                fetchVars, pageVars, searchVars, erpVars>>
othersRisk == <<hullVars, mapVars, dashVars, reportVars, simVars, chartVars,
                alertVars, trustVars, checkerVars, portalVars, loginVars,
                fetchVars, pageVars, searchVars, erpVars>>
othersMap == <<hullVars, riskVars, dashVars, reportVars, simVars, chartVars,
               alertVars, trustVars, checkerVars, portalVars, loginVars,
               fetchVars, pageVars, searchVars, erpVars>>
othersDash == <<hullVars, riskVars, mapVars, reportVars, simVars, chartVars,
                alertVars, trustVars, checkerVars, portalVars, loginVars,
                fetchVars, pageVars, searchVars, erpVars>>
othersReport == <<hullVars, riskVars, mapVars, dashVars, simVars, chartVars,
                  alertVars, trustVars, checkerVars, portalVars, loginVars,
                  fetchVars, pageVars, searchVars, erpVars>>
othersSim == <<hullVars, riskVars, mapVars, dashVars, reportVars, chartVars,
               alertVars, trustVars, checkerVars, portalVars, loginVars,
               fetchVars, pageVars, searchVars, erpVars>>
othersChart == <<hullVars, riskVars, mapVars, dashVars, reportVars, simVars,
                 alertVars, trustVars, checkerVars, portalVars, loginVars,
                 fetchVars, pageVars, searchVars, erpVars>>
othersAlert == <<hullVars, riskVars, mapVars, dashVars, reportVars, simVars,
                 chartVars, trustVars, checkerVars, portalVars, loginVars,
                 fetchVars, pageVars, searchVars, erpVars>>
othersTrust == <<hullVars, riskVars, mapVars, dashVars, reportVars, simVars,
                 chartVars, alertVars, checkerVars, portalVars, loginVars,
                 fetchVars, pageVars, searchVars, erpVars>>
othersChecker == <<hullVars, riskVars, mapVars, dashVars, reportVars,
                   simVars, chartVars, alertVars, trustVars, portalVars,
                   loginVars, fetchVars, pageVars, searchVars, erpVars>>
othersPortal == <<hullVars, riskVars, mapVars, dashVars, reportVars, simVars,
                  chartVars, alertVars, trustVars, checkerVars, loginVars,
                  fetchVars, pageVars, searchVars, erpVars>>
othersLogin == <<hullVars, riskVars, mapVars, dashVars, reportVars, simVars,
                 chartVars, alertVars, trustVars, checkerVars, portalVars,
                 fetchVars, pageVars, searchVars, erpVars>>
othersFetch == <<hullVars, riskVars, mapVars, dashVars, reportVars, simVars,
                 chartVars, alertVars, trustVars, checkerVars, portalVars,
                 loginVars, pageVars, searchVars, erpVars>>
othersPage == <<hullVars, riskVars, mapVars, dashVars, reportVars, simVars,
                chartVars, alertVars, trustVars, checkerVars, portalVars,
                loginVars, fetchVars, searchVars, erpVars>>
othersSearch == <<hullVars, riskVars, mapVars, dashVars, reportVars, simVars,
                  chartVars, alertVars, trustVars, checkerVars, portalVars,
                  loginVars, fetchVars, pageVars, erpVars>>
othersErp == <<hullVars, riskVars, mapVars, dashVars, reportVars, simVars,
               chartVars, alertVars, trustVars, checkerVars, portalVars,
               loginVars, fetchVars, pageVars, searchVars>>

-----------------------------------------------------------------------------
(* Bounds of the model *)

LatMax == 1        \* latitudes are integers 0..LatMax
LonMax == 2        \* longitudes are integers 0..LonMax
MaxPoints == 4     \* members of the cluster whose hull is computed

-----------------------------------------------------------------------------
(* Generic helpers *)

Range(s) == {s[i] : i \in 1..Len(s)}

Front(s) == SubSeq(s, 1, Len(s) - 1)

Reverse(s) == [i \in 1..Len(s) |-> s[Len(s) + 1 - i]]

-----------------------------------------------------------------------------
(* getConvexHull                                                           *)

Point == [latitude : 0..LatMax, longitude : 0..LonMax]

\* The comparator handed to sort: by longitude, then by latitude.
ComparePoints(a, b) ==
    IF a.longitude = b.longitude
    THEN a.latitude - b.latitude
    ELSE a.longitude - b.longitude

\* Array.prototype.sort is stable: x goes after every element that does not
\* compare greater than it.
RECURSIVE InsertSorted(_, _)
InsertSorted(x, s) ==
    IF s = <<>> THEN <<x>>
    ELSE IF ComparePoints(s[1], x) > 0 THEN <<x>> \o s
    ELSE <<s[1]>> \o InsertSorted(x, Tail(s))

RECURSIVE SortFrom(_, _)
SortFrom(s, acc) ==
    IF s = <<>> THEN acc ELSE SortFrom(Tail(s), InsertSorted(s[1], acc))

SortPoints_None(s) == s

SortPoints(s) == SortFrom(s, <<>>)

cross_Clockwise(o, a, b) ==
    (a.latitude - o.latitude) * (b.longitude - o.longitude)
        - (a.longitude - o.longitude) * (b.latitude - o.latitude)

cross(o, a, b) ==
    (a.longitude - o.longitude) * (b.latitude - o.latitude)
        - (a.latitude - o.latitude) * (b.longitude - o.longitude)

ShouldPop_Strict(chain, p) ==
    Len(chain) >= 2 /\ cross(chain[Len(chain) - 1], chain[Len(chain)], p) < 0

\* The condition of the while loops.
ShouldPop(chain, p) ==
    Len(chain) >= 2 /\ cross(chain[Len(chain) - 1], chain[Len(chain)], p) <= 0

\* One iteration of a for loop: pop while ShouldPop, then push p.
RECURSIVE PushPoint(_, _)
PushPoint(chain, p) ==
    IF ShouldPop(chain, p) THEN PushPoint(Front(chain), p) ELSE Append(chain, p)

RECURSIVE BuildChain(_, _)
BuildChain(s, chain) ==
    IF s = <<>> THEN chain ELSE BuildChain(Tail(s), PushPoint(chain, s[1]))

ToPair_Swapped(p) == <<p.longitude, p.latitude>>

\* p => [p.latitude, p.longitude]
ToPair(p) == <<p.latitude, p.longitude>>

MapToPairs(s) == [i \in 1..Len(s) |-> ToPair(s[i])]

getConvexHull(pts) ==
    IF Len(pts) < 3 THEN MapToPairs(pts)
    ELSE LET sorted == SortPoints(pts)
             lower  == BuildChain(sorted, <<>>)
             upper  == BuildChain(Reverse(sorted), <<>>)
             hullStub == Front(lower) \o Front(upper)
         IN  MapToPairs(hullStub)

-----------------------------------------------------------------------------
(* ClusterMap.clusterHulls for one cluster: the memo recomputes the hull   *)
(* whenever the clusters prop changes.                                     *)

HullInit ==
    /\ points = <<>>
    /\ boundary = getConvexHull(<<>>)

\* The next clusters prop lists one more member in the cluster.
AddPoint(p) ==
    /\ Len(points) < MaxPoints
    /\ points' = Append(points, p)
    /\ boundary' = getConvexHull(points')
    /\ UNCHANGED othersHull

SwapAt(s, i) ==
    [k \in 1..Len(s) |-> IF k = i THEN s[i + 1] ELSE IF k = i + 1 THEN s[i] ELSE s[k]]

\* The next clusters prop lists the same members in another order.
Reorder(i) ==
    /\ i \in 1..(Len(points) - 1)
    /\ points' = SwapAt(points, i)
    /\ boundary' = getConvexHull(points')
    /\ UNCHANGED othersHull

HullNext ==
    \/ \E p \in Point : AddPoint(p)
    \/ \E i \in 1..MaxPoints : Reorder(i)

-----------------------------------------------------------------------------
(* RiskSidebar                                                             *)

MaxRiskClusters == 2   \* clusters in the clusters prop
MaxMembers == 5        \* member hospitals of one cluster
MaxVolume == 2         \* aggregate flu-positive count a cluster can carry

SizeThreshold == 3

\* A cluster as the sidebar receives it.  flu_positive stands for the
\* aggregate case count of the cluster; RiskSidebar never reads it.
MakeCluster(id, n, v) ==
    [cluster_id |-> id, members |-> [i \in 1..n |-> i], flu_positive |-> v]

\* [...clusters].sort((a, b) => b.members.length - a.members.length), stable.
RECURSIVE InsertBySize(_, _)
InsertBySize(c, s) ==
    IF s = <<>> THEN <<c>>
    ELSE IF Len(c.members) - Len(s[1].members) > 0 THEN <<c>> \o s
    ELSE <<s[1]>> \o InsertBySize(c, Tail(s))

RECURSIVE SortBySizeFrom(_, _)
SortBySizeFrom(s, acc) ==
    IF s = <<>> THEN acc ELSE SortBySizeFrom(Tail(s), InsertBySize(s[1], acc))

sortedClusters(cs) == SortBySizeFrom(cs, <<>>)

riskLevel_AtLeast(cluster) ==
    IF Len(cluster.members) >= SizeThreshold THEN "High" ELSE "Moderate"

riskLevel_Volume(cluster) ==
    IF Len(cluster.members) > SizeThreshold \/ cluster.flu_positive > 0
    THEN "High" ELSE "Moderate"

riskLevel(cluster) ==
    IF Len(cluster.members) > SizeThreshold THEN "High" ELSE "Moderate"

\* One card per cluster of sortedClusters.
RiskSidebar(cs) ==
    LET sorted == sortedClusters(cs)
    IN  [i \in 1..Len(sorted) |->
            [cluster_id   |-> sorted[i].cluster_id,
             riskLevel    |-> riskLevel(sorted[i]),
             facilities   |-> Len(sorted[i].members)]]

RiskInit ==
    /\ riskClusters = <<>>
    /\ riskCards = RiskSidebar(<<>>)

\* Dashboard hands the sidebar a clusters list with one more cluster.
RiskAddCluster(n, v) ==
    /\ Len(riskClusters) < MaxRiskClusters
    /\ riskClusters' = Append(riskClusters, MakeCluster(Len(riskClusters) + 1, n, v))
    /\ riskCards' = RiskSidebar(riskClusters')
    /\ UNCHANGED othersRisk

\* Dashboard hands the sidebar an empty clusters list.
RiskClearClusters ==
    /\ riskClusters # <<>>
    /\ riskClusters' = <<>>
    /\ riskCards' = RiskSidebar(riskClusters')
    /\ UNCHANGED othersRisk

RiskNext ==
    \/ \E n \in 1..MaxMembers, v \in 0..MaxVolume : RiskAddCluster(n, v)
    \/ RiskClearClusters

-----------------------------------------------------------------------------
(* ClusterMap markers: featuresToRender and mergedFeatures                 *)

MaxHospitals == 2     \* hospitals known to the dashboard
MaxMapClusters == 2   \* clusters in the clusters prop of the map

IcuCritical == 80
IcuWarning == 50

\* ICU utilization percentages the hospitals list can carry: the values on
\* both sides of the two thresholds, idle and full.
IcuSamples == {0, IcuWarning, IcuWarning + 1, IcuCritical, IcuCritical + 1, 100}

COLOR_NAMES == <<"blue", "green", "orange", "yellow", "violet", "grey", "black">>

Unassigned == "Unassigned"

\* A hospital of the hospitals prop; hasUsage is FALSE when it has no usage key.
Hospital(id, hasUsage, icu) ==
    [hospital_id |-> id, hasUsage |-> hasUsage, icu_utilization |-> icu]

\* A cluster of the map: cluster_id and members, the members carrying no usage.
MapCluster(id, members) == [cluster_id |-> id, members |-> members]

ClusterColorAt(idx) == COLOR_NAMES[((idx - 1) % Len(COLOR_NAMES)) + 1]

RECURSIVE FlatMapMembers(_, _)
FlatMapMembers(cs, idx) ==
    IF idx > Len(cs) THEN <<>>
    ELSE [i \in 1..Len(cs[idx].members) |->
            [hospital_id  |-> cs[idx].members[i],
             clusterColor |-> ClusterColorAt(idx),
             clusterId    |-> cs[idx].cluster_id]]
         \o FlatMapMembers(cs, idx + 1)

featuresToRender(cs, hs) ==
    IF Len(cs) > 0
    THEN FlatMapMembers(cs, 1)
    ELSE [i \in 1..Len(hs) |->
            [hospital_id  |-> hs[i].hospital_id,
             clusterColor |-> "grey",
             clusterId    |-> Unassigned]]

\* hospitals?.find(h => h.hospital_id === id): index of the first match, 0 for none.
FindHospital(hs, id) ==
    IF \E i \in 1..Len(hs) : hs[i].hospital_id = id
    THEN CHOOSE i \in 1..Len(hs) :
            /\ hs[i].hospital_id = id
            /\ \A j \in 1..(i - 1) : hs[j].hospital_id # id
    ELSE 0

stressOf(icuUtil) ==
    IF icuUtil > IcuCritical THEN [markerColor |-> "red", stressLevel |-> "CRITICAL"]
    ELSE IF icuUtil > IcuWarning THEN [markerColor |-> "orange", stressLevel |-> "Warning"]
    ELSE [markerColor |-> "green", stressLevel |-> "Normal"]

mergedFeatures(cs, hs) ==
    LET fs == featuresToRender(cs, hs)
    IN  [i \in 1..Len(fs) |->
          LET f == fs[i]
              k == FindHospital(hs, f.hospital_id)
              hasUsage == k # 0 /\ hs[k].hasUsage
              s == IF hasUsage THEN stressOf(hs[k].icu_utilization)
                   ELSE [markerColor |-> f.clusterColor, stressLevel |-> "Normal"]
          IN  [hospital_id  |-> f.hospital_id,
               clusterColor |-> f.clusterColor,
               clusterId    |-> f.clusterId,
               hasUsage     |-> hasUsage,
               icu_utilization |-> IF hasUsage THEN hs[k].icu_utilization ELSE 0,
               markerColor  |-> s.markerColor,
               stressLevel  |-> s.stressLevel]]

MapInit ==
    /\ mapClusters = <<>>
    /\ mapHospitals = <<>>
    /\ markers = mergedFeatures(<<>>, <<>>)

\* The hospitals prop gains a hospital, with or without usage data.
MapAddHospital(hasUsage, icu) ==
    /\ Len(mapHospitals) < MaxHospitals
    /\ mapHospitals' = Append(mapHospitals, Hospital(Len(mapHospitals) + 1, hasUsage, icu))
    /\ UNCHANGED mapClusters
    /\ markers' = mergedFeatures(mapClusters', mapHospitals')
    /\ UNCHANGED othersMap

InSomeCluster(cs, h) ==
    \E c \in 1..Len(cs) : h \in Range(cs[c].members)

\* The clusters prop gains a member: hospital h of the hospitals list joins
\* cluster c, or opens a new cluster.  A hospital is a member of at most one
\* cluster.
MapAddMember(c, h) ==
    /\ h \in 1..Len(mapHospitals)
    /\ c \in 1..(Len(mapClusters) + 1)
    /\ c <= MaxMapClusters
    /\ ~InSomeCluster(mapClusters, h)
    /\ mapClusters' =
         IF c = Len(mapClusters) + 1
         THEN Append(mapClusters, MapCluster(ToString(c), <<h>>))
         ELSE [mapClusters EXCEPT ![c].members = Append(@, h)]
    /\ UNCHANGED mapHospitals
    /\ markers' = mergedFeatures(mapClusters', mapHospitals')
    /\ UNCHANGED othersMap

MapNext ==
    \/ \E icu \in IcuSamples : MapAddHospital(TRUE, icu)
    \/ MapAddHospital(FALSE, 0)
    \/ \E c \in 1..MaxMapClusters, h \in 1..MaxHospitals : MapAddMember(c, h)

-----------------------------------------------------------------------------
(* Dashboard: fetchDashboardData, issued on mount and then by the 2 s      *)
(* interval, each request answered by the server from the snapshot it has  *)
(* published, each response handled by the .then / .catch callbacks.       *)

MaxPolls == 3      \* dashboard requests issued
MaxSnapshot == 1   \* snapshots the server publishes after the first one

Null == -1         \* a field the response body does not carry

\* The shapes a response can have: the full body; a body lacking one of its
\* parts; a body with none of the fields (the JSON body of an error
\* response); no parsable body at all (network error, res.json() rejects).
Shapes == {"full", "noNetwork", "noClusters", "noAnalysis", "noFields", "error"}

\* The response of shape sh built from snapshot v: its parsed body, ok telling
\* whether res.json() resolved, and httpOk the res.ok flag of the response,
\* which fetchDashboardData never reads.
ResponseOf(sh, v) ==
    [ok             |-> sh # "error",
     httpOk         |-> sh \notin {"noFields", "error"},
     stats          |-> IF sh \in {"noFields", "error"} THEN Null ELSE v,
     hasAnalysis    |-> sh \in {"full", "noNetwork", "noClusters"},
     clusters       |-> IF sh \in {"full", "noNetwork"} THEN v ELSE Null,
     network        |-> IF sh \in {"full", "noClusters"} THEN v ELSE Null,
     hospitals_list |-> IF sh \in {"full", "noNetwork", "noClusters", "noAnalysis"}
                        THEN v ELSE Null]

NoResponse == ResponseOf("error", 0)

\* A value held in Dashboard state: kind "data" is the content of snapshot
\* snap, kind "empty" is [], "null" is null, "undefined" is undefined.  poll
\* records which poll's response the value was taken from (0: the initial
\* state); the code holds no such tag, it is here to state the properties.
Val(kind, snap, poll) == [kind |-> kind, snap |-> snap, poll |-> poll]

DashInit ==
    /\ snapshot = 0
    /\ polls = <<>>
    /\ stats = Val("null", Null, 0)
    /\ clusters = Val("empty", Null, 0)
    /\ network = Val("empty", Null, 0)
    /\ hospitals = Val("empty", Null, 0)
    /\ loading = TRUE

\* fetchDashboardData(): the initial fetch or a tick of the interval.
IssuePoll ==
    /\ Len(polls) < MaxPolls
    /\ polls' = Append(polls, [status |-> "sent", data |-> NoResponse])
    /\ UNCHANGED <<snapshot, stats, clusters, network, hospitals, loading>>
    /\ UNCHANGED othersDash

\* The recompute cycle publishes the next snapshot.
Recompute ==
    /\ snapshot < MaxSnapshot
    /\ snapshot' = snapshot + 1
    /\ UNCHANGED <<polls, stats, clusters, network, hospitals, loading>>
    /\ UNCHANGED othersDash

\* The server answers request p from the snapshot published at that time,
\* or the request fails.
Answer(p, sh) ==
    /\ p \in 1..Len(polls)
    /\ polls[p].status = "sent"
    /\ polls' = [polls EXCEPT ![p] = [status |-> "answered",
                                      data |-> ResponseOf(sh, IF sh = "error" THEN 0 ELSE snapshot)]]
    /\ UNCHANGED <<snapshot, stats, clusters, network, hospitals, loading>>
    /\ UNCHANGED othersDash

\* setStats(data.stats)
statsAfter(data, p) ==
    IF data.stats = Null THEN Val("undefined", Null, p) ELSE Val("data", data.stats, p)

\* if (data.analysis) setClusters(data.analysis.clusters || [])
clustersAfter(data, p, old) ==
    IF data.hasAnalysis
    THEN IF data.clusters # Null THEN Val("data", data.clusters, p) ELSE Val("empty", Null, p)
    ELSE old

networkAfter_KeepWhenMissing(data, p, old) ==
    IF data.hasAnalysis /\ data.network # Null THEN Val("data", data.network, p) ELSE old

\* if (data.analysis) setNetwork(data.analysis.network || [])
networkAfter(data, p, old) ==
    IF data.hasAnalysis
    THEN IF data.network # Null THEN Val("data", data.network, p) ELSE Val("empty", Null, p)
    ELSE old

\* if (data.hospitals_list) setHospitals(data.hospitals_list)
hospitalsAfter(data, p, old) ==
    IF data.hospitals_list # Null THEN Val("data", data.hospitals_list, p) ELSE old

\* The response to poll p arrives: the .then callback runs, its state updates
\* applied in one batch, or the .catch callback runs.
Deliver(p) ==
    /\ p \in 1..Len(polls)
    /\ polls[p].status = "answered"
    /\ polls' = [polls EXCEPT ![p].status = "done"]
    /\ LET data == polls[p].data
       IN  IF data.ok
           THEN /\ stats' = statsAfter(data, p)
                /\ clusters' = clustersAfter(data, p, clusters)
                /\ network' = networkAfter(data, p, network)
                /\ hospitals' = hospitalsAfter(data, p, hospitals)
                /\ loading' = FALSE
           ELSE /\ loading' = FALSE
                /\ UNCHANGED <<stats, clusters, network, hospitals>>
    /\ UNCHANGED snapshot
    /\ UNCHANGED othersDash

DashNext ==
    \/ IssuePoll
    \/ Recompute
    \/ \E p \in 1..MaxPolls, sh \in Shapes : Answer(p, sh)
    \/ \E p \in 1..MaxPolls : Deliver(p)

-----------------------------------------------------------------------------
(* ReportModal (getLocation, toggleSymptom, submitReport) and the reports  *)
(* effect of ClusterMap.  The modal stays mounted while closed, so its     *)
(* state and its requests in flight survive onClose.                       *)

MaxSubmits == 2    \* report submissions sent by the modal

\* The symptoms the modal offers (the first two of commonSymptoms).
CommonSymptoms == {"Fever", "Cough"}

\* The positions a location fix can deliver.
Positions == {1, 2}

\* The replies a submission can get: accepted; rejected with a JSON body
\* carrying detail; a non-OK response whose body is not JSON; no response.
SubmitReplies == {"ok", "rejected", "serverError", "netError"}

\* fetched: fetch resolved; ok: res.ok; parsable: res.json() resolves.
ReplyOf(kind) ==
    [fetched     |-> kind # "netError",
     ok          |-> kind = "ok",
     parsable    |-> kind \in {"ok", "rejected"},
     trust_score |-> IF kind = "ok" THEN 1 ELSE Null,
     detail      |-> IF kind = "rejected" THEN "Too many reports" ELSE "none"]

NoReply == ReplyOf("netError")

\* An alert() of the modal; sub is the submission it was raised for, 0 for
\* the alerts of getLocation.
Alert(text, detail, sub) == [text |-> text, detail |-> detail, sub |-> sub]

ReportInit ==
    /\ rmOpen = FALSE
    /\ rmStep = 1
    /\ rmSymptoms = <<>>
    /\ rmCoords = Null
    /\ rmLoading = FALSE
    /\ rmTrustScore = Null
    /\ rmAlert = Alert("none", "none", 0)
    /\ geo = [supported |-> "unknown", pending |-> FALSE]
    /\ submissions = <<>>
    /\ serverReports = {}
    /\ mapFetch = [status |-> "sent", ok |-> FALSE, data |-> {}]
    /\ mapReports = {}

\* Dashboard: onClick={() => setShowReport(true)}
OpenReport ==
    /\ ~rmOpen
    /\ rmOpen' = TRUE
    /\ UNCHANGED <<rmStep, rmSymptoms, rmCoords, rmLoading, rmTrustScore, rmAlert,
                   geo, submissions, serverReports, mapFetch, mapReports>>
    /\ UNCHANGED othersReport

\* onClose={() => setShowReport(false)}
CloseReport ==
    /\ rmOpen
    /\ rmOpen' = FALSE
    /\ UNCHANGED <<rmStep, rmSymptoms, rmCoords, rmLoading, rmTrustScore, rmAlert,
                   geo, submissions, serverReports, mapFetch, mapReports>>
    /\ UNCHANGED othersReport

\* A click on "Verify Location": the button is rendered at step 1, disabled
\* while loading.  Whether the browser has navigator.geolocation shows at
\* the first click and stays.
getLocation(supported) ==
    /\ rmOpen /\ rmStep = 1 /\ ~rmLoading
    /\ geo.supported \in {"unknown", supported}
    /\ IF supported = "yes"
       THEN /\ rmLoading' = TRUE
            /\ geo' = [supported |-> supported, pending |-> TRUE]
            /\ UNCHANGED rmAlert
       ELSE /\ rmAlert' = Alert("Geolocation not supported", "none", 0)
            /\ geo' = [geo EXCEPT !.supported = supported]
            /\ UNCHANGED rmLoading
    /\ UNCHANGED <<rmOpen, rmStep, rmSymptoms, rmCoords, rmTrustScore,
                   submissions, serverReports, mapFetch, mapReports>>
    /\ UNCHANGED othersReport

\* The success callback of getCurrentPosition.
GeoSuccess(pos) ==
    /\ geo.pending
    /\ geo' = [geo EXCEPT !.pending = FALSE]
    /\ rmCoords' = pos
    /\ rmLoading' = FALSE
    /\ rmStep' = 2
    /\ UNCHANGED <<rmOpen, rmSymptoms, rmTrustScore, rmAlert,
                   submissions, serverReports, mapFetch, mapReports>>
    /\ UNCHANGED othersReport

\* The error callback of getCurrentPosition.
GeoError ==
    /\ geo.pending
    /\ geo' = [geo EXCEPT !.pending = FALSE]
    /\ rmAlert' = Alert("Location access denied. We cannot verify your report.", "none", 0)
    /\ rmLoading' = FALSE
    /\ UNCHANGED <<rmOpen, rmStep, rmSymptoms, rmCoords, rmTrustScore,
                   submissions, serverReports, mapFetch, mapReports>>
    /\ UNCHANGED othersReport

\* symptoms.filter(s => s !== sym)
Without(seq, sym) == SelectSeq(seq, LAMBDA s : s # sym)

\* toggleSymptom(sym): the symptom buttons are rendered at step 2.
toggleSymptom(sym) ==
    /\ rmOpen /\ rmStep = 2
    /\ rmSymptoms' = IF sym \in Range(rmSymptoms)
                     THEN Without(rmSymptoms, sym)
                     ELSE Append(rmSymptoms, sym)
    /\ UNCHANGED <<rmOpen, rmStep, rmCoords, rmLoading, rmTrustScore, rmAlert,
                   geo, submissions, serverReports, mapFetch, mapReports>>
    /\ UNCHANGED othersReport

submitDisabled_IgnoreLoading(syms, busy) == Len(syms) = 0

\* disabled={symptoms.length === 0 || loading}
submitDisabled(syms, busy) == Len(syms) = 0 \/ busy

\* A click on "Submit Report" (rendered at step 2): submitReport up to its
\* first await.
submitReport ==
    /\ rmOpen /\ rmStep = 2
    /\ ~submitDisabled(rmSymptoms, rmLoading)
    /\ Len(submissions) < MaxSubmits
    /\ IF rmCoords = Null
       THEN UNCHANGED <<rmLoading, submissions>>
       ELSE /\ rmLoading' = TRUE
            /\ submissions' = Append(submissions,
                                     [status |-> "sent", coords |-> rmCoords,
                                      symptoms |-> rmSymptoms, reply |-> NoReply])
    /\ UNCHANGED <<rmOpen, rmStep, rmSymptoms, rmCoords, rmTrustScore, rmAlert,
                   geo, serverReports, mapFetch, mapReports>>
    /\ UNCHANGED othersReport

\* The server answers submission i, storing the report when it accepts it,
\* or the request fails.
AnswerSubmit(i, kind) ==
    /\ i \in 1..Len(submissions)
    /\ submissions[i].status = "sent"
    /\ submissions' = [submissions EXCEPT ![i].status = "answered",
                                          ![i].reply = ReplyOf(kind)]
    /\ serverReports' = IF kind = "ok" THEN serverReports \cup {i} ELSE serverReports
    /\ UNCHANGED <<rmOpen, rmStep, rmSymptoms, rmCoords, rmLoading, rmTrustScore,
                   rmAlert, geo, mapFetch, mapReports>>
    /\ UNCHANGED othersReport

\* if (res.ok) { const data = await res.json(); ... } reached without a throw
Accepted(reply) == reply.fetched /\ reply.ok /\ reply.parsable

stepAfterSubmit_IgnoreOk(reply, old) == IF reply.fetched /\ reply.parsable THEN 3 ELSE old

\* setStep(3) in the res.ok branch
stepAfterSubmit(reply, old) == IF Accepted(reply) THEN 3 ELSE old

\* setTrustScore(data.trust_score) in the res.ok branch
trustScoreAfterSubmit(reply, old) == IF Accepted(reply) THEN reply.trust_score ELSE old

alertAfterSubmit_NoReason(reply, i, old) ==
    IF Accepted(reply) THEN old ELSE Alert("Network Error", "none", i)

\* The alert of the else branch, or of the catch block.
alertAfterSubmit(reply, i, old) ==
    IF Accepted(reply) THEN old
    ELSE IF reply.fetched /\ reply.parsable
         THEN Alert("Submission Rejected", reply.detail, i)
         ELSE Alert("Network Error", "none", i)

\* The rest of submitReport for submission i, from the await of fetch to
\* the finally block.
DeliverSubmit(i) ==
    /\ i \in 1..Len(submissions)
    /\ submissions[i].status = "answered"
    /\ submissions' = [submissions EXCEPT ![i].status = "done"]
    /\ LET reply == submissions[i].reply
       IN  /\ rmStep' = stepAfterSubmit(reply, rmStep)
           /\ rmTrustScore' = trustScoreAfterSubmit(reply, rmTrustScore)
           /\ rmAlert' = alertAfterSubmit(reply, i, rmAlert)
    /\ rmLoading' = FALSE
    /\ UNCHANGED <<rmOpen, rmSymptoms, rmCoords, geo, serverReports, mapFetch, mapReports>>
    /\ UNCHANGED othersReport

\* The server answers the reports request of ClusterMap with the reports it
\* has stored, or the request fails.
AnswerReports(ok) ==
    /\ mapFetch.status = "sent"
    /\ mapFetch' = [status |-> "answered", ok |-> ok,
                    data |-> IF ok THEN serverReports ELSE {}]
    /\ UNCHANGED <<rmOpen, rmStep, rmSymptoms, rmCoords, rmLoading, rmTrustScore,
                   rmAlert, geo, submissions, serverReports, mapReports>>
    /\ UNCHANGED othersReport

\* .then(data => setReports(data)) or .catch
DeliverReports ==
    /\ mapFetch.status = "answered"
    /\ mapFetch' = [mapFetch EXCEPT !.status = "done"]
    /\ mapReports' = IF mapFetch.ok THEN mapFetch.data ELSE mapReports
    /\ UNCHANGED <<rmOpen, rmStep, rmSymptoms, rmCoords, rmLoading, rmTrustScore,
                   rmAlert, geo, submissions, serverReports>>
    /\ UNCHANGED othersReport

ReportNext ==
    \/ OpenReport
    \/ CloseReport
    \/ \E supported \in {"yes", "no"} : getLocation(supported)
    \/ \E pos \in Positions : GeoSuccess(pos)
    \/ GeoError
    \/ \E sym \in CommonSymptoms : toggleSymptom(sym)
    \/ submitReport
    \/ \E i \in 1..MaxSubmits, kind \in SubmitReplies : AnswerSubmit(i, kind)
    \/ \E i \in 1..MaxSubmits : DeliverSubmit(i)
    \/ \E ok \in BOOLEAN : AnswerReports(ok)
    \/ DeliverReports

-----------------------------------------------------------------------------
(* SimulatorPanel.runSimulation, for the panel as rendered when open       *)

MaxDays == 2       \* points of a simulated curve

\* The sequences over S of length at most n.
SeqUpTo(S, n) == UNION {[1..k -> S] : k \in 0..n}

\* The points a curve can carry: {day, infected}; the day of a projected
\* point is never read.
BaselinePoints == {[day |-> 1, infected |-> 7], [day |-> 2, infected |-> 5]}
ProjectedPoints == {[infected |-> 0], [infected |-> 7]}

\* What await res.json() can yield: a body with both curves; a body without
\* them (hasCurves FALSE); or a throw of fetch or res.json() (parsed FALSE).
SimResults ==
    {[parsed |-> TRUE, hasCurves |-> TRUE, baseline |-> b, projected |-> q] :
        b \in SeqUpTo(BaselinePoints, MaxDays), q \in SeqUpTo(ProjectedPoints, MaxDays)}
    \cup {[parsed |-> ok, hasCurves |-> FALSE, baseline |-> <<>>, projected |-> <<>>] :
             ok \in BOOLEAN}

\* `Day ${b.day}`
DayLabel(day) == <<"Day", day>>

formatRow_Swapped(b, q) == [day |-> DayLabel(b.day), baseline |-> q.infected, projected |-> b.infected]

\* ({ day: `Day ${b.day}`, baseline: b.infected, projected: result.projected[i].infected })
formatRow(b, q) == [day |-> DayLabel(b.day), baseline |-> b.infected, projected |-> q.infected]

\* result.baseline.map(...) runs to its end: the body parsed, it has the
\* curves, and result.projected[i] exists for every index of the baseline.
MapCompletes(result) ==
    /\ result.parsed
    /\ result.hasCurves
    /\ Len(result.projected) >= Len(result.baseline)

\* const formatted = result.baseline.map((b, i) => ...)
formatted(result) ==
    [i \in 1..Len(result.baseline) |-> formatRow(result.baseline[i], result.projected[i])]

SimInit ==
    /\ simData = <<"null">>
    /\ simLoading = FALSE
    /\ simRequest = [status |-> "idle"]

\* A click on "Run Projection" (disabled while loading): runSimulation up to
\* its first await.
runSimulation ==
    /\ ~simLoading
    /\ simRequest.status = "idle"
    /\ simLoading' = TRUE
    /\ simRequest' = [status |-> "sent"]
    /\ UNCHANGED simData
    /\ UNCHANGED othersSim

\* The server answers the request, or the request fails.
AnswerSimulation(result) ==
    /\ simRequest.status = "sent"
    /\ simRequest' = [status |-> "answered", result |-> result]
    /\ UNCHANGED <<simData, simLoading>>
    /\ UNCHANGED othersSim

\* The rest of runSimulation: setData(formatted) unless something threw,
\* and setLoading(false) in the finally block.
DeliverSimulation ==
    /\ simRequest.status = "answered"
    /\ simRequest' = [status |-> "idle"]
    /\ simData' = IF MapCompletes(simRequest.result)
                  THEN <<"rows", formatted(simRequest.result)>>
                  ELSE simData
    /\ simLoading' = FALSE
    /\ UNCHANGED othersSim

SimNext ==
    \/ runSimulation
    \/ \E result \in SimResults : AnswerSimulation(result)
    \/ DeliverSimulation

-----------------------------------------------------------------------------
(* PredictionChart: the effect that loads the forecast once a token is set *)

MaxForecast == 2   \* points of a forecast response

\* A text field is a sequence of tokens, the empty sequence standing for a
\* field the point does not carry; a number field the point does not carry
\* is Null.
Absent == <<>>

\* The forecast points a response can carry: ds is a timestamp or absent,
\* date and admission_date a day or absent, yhat 0, 3 or absent, value 5
\* or absent.
ForecastPoints ==
    [ds             : {Absent, <<"2024-05-01", "T", "00:00:00">>},
     date           : {Absent, <<"2024-05-02">>},
     admission_date : {Absent, <<"2024-05-03">>},
     yhat           : {Null, 0, 3},
     value          : {Null, 5}]

\* What the request can yield: an array of points; a JSON body that is no
\* array; a non-OK response; a throw of fetch or res.json().
ForecastReplies ==
    {[kind |-> "array", points |-> ps] : ps \in SeqUpTo(ForecastPoints, MaxForecast)}
    \cup {[kind |-> k, points |-> <<>>] : k \in {"notArray", "notOk", "throws"}}

\* text.split('T')[0]: the tokens before the first "T".
RECURSIVE DatePart(_)
DatePart(text) ==
    IF text = <<>> \/ Head(text) = "T" THEN <<>>
    ELSE <<Head(text)>> \o DatePart(Tail(text))

\* a || b for text: a unless it is undefined or empty.
OrText(a, b) == IF a # <<>> THEN a ELSE b

\* a || b for numbers: a unless it is undefined or 0.
OrNumber(a, b) == IF a # Null /\ a # 0 THEN a ELSE b

\* d.ds ? d.ds.split('T')[0] : (d.date || d.admission_date)
labelOf(d) == IF d.ds # <<>> THEN DatePart(d.ds) ELSE OrText(d.date, d.admission_date)

\* d.yhat || d.value || 0
valueOf(d) == OrNumber(OrNumber(d.yhat, d.value), 0)

\* The labels and the data of the dataset handed to setChartData.
chartOf(ps) == [labels |-> [i \in 1..Len(ps) |-> labelOf(ps[i])],
                data   |-> [i \in 1..Len(ps) |-> valueOf(ps[i])]]

ChartInit ==
    /\ chartData = <<"null">>
    /\ chartRequest = [status |-> "idle"]

\* The effect runs with a token: load() up to its first await.
load ==
    /\ chartRequest.status = "idle"
    /\ chartRequest' = [status |-> "sent"]
    /\ UNCHANGED chartData
    /\ UNCHANGED othersChart

\* The server answers the request, or the request fails.
AnswerForecast(reply) ==
    /\ chartRequest.status = "sent"
    /\ chartRequest' = [status |-> "answered", reply |-> reply]
    /\ UNCHANGED chartData
    /\ UNCHANGED othersChart

\* The rest of load(): if (!res.ok) return; if (Array.isArray(data)) setChartData(...)
DeliverForecast ==
    /\ chartRequest.status = "answered"
    /\ chartRequest' = [chartRequest EXCEPT !.status = "done"]
    /\ chartData' = IF chartRequest.reply.kind = "array"
                    THEN <<"chart", chartOf(chartRequest.reply.points)>>
                    ELSE chartData
    /\ UNCHANGED othersChart

ChartNext ==
    \/ load
    \/ \E reply \in ForecastReplies : AnswerForecast(reply)
    \/ DeliverForecast

-----------------------------------------------------------------------------
(* The Alert Generator, evaluated once per cycle, and LiveAlerts, which    *)
(* polls the active alerts every 10 s.                                     *)

MaxCycles == 4     \* evaluation cycles of the Alert Generator
Cooldown == 3      \* cycles before a persisting condition alerts again

\* The (scope, rule) pairs evaluated, in the order of evaluation.
AlertKeys == <<[scope |-> 1, rule |-> "ICU_CRITICAL"], [scope |-> 2, rule |-> "ICU_CRITICAL"]>>

\* The conditions a cycle can find: for each (scope, rule), whether its
\* threshold is exceeded.
Conditions == [Range(AlertKeys) -> BOOLEAN]

\* The condition of key k held in cycle t (no condition holds before the
\* first cycle).
HeldAt(history, k, t) == t \in 1..Len(history) /\ history[t][k]

\* Cycle t raises an alert for key k: its condition holds, and it did not
\* hold in the cycle before, or the last alert for k is a cooldown old.
ShouldRaise(k, conds, history, last, t) ==
    /\ conds[k]
    /\ \/ ~HeldAt(history, k, t - 1)
       \/ last[k] = Null
       \/ t - last[k] >= Cooldown

\* evaluate_alerts: the alerts of cycle t, numbered after the n existing ones.
NewAlerts(conds, history, last, t, n) ==
    LET raised == SelectSeq(AlertKeys, LAMBDA k : ShouldRaise(k, conds, history, last, t))
    IN  [i \in 1..Len(raised) |->
            [alert_id |-> n + i, scope |-> raised[i].scope, rule |-> raised[i].rule,
             created_at |-> t]]

AlertInit ==
    /\ alertHistory = <<>>
    /\ alertLast = [k \in Range(AlertKeys) |-> Null]
    /\ serverAlerts = <<>>
    /\ alertPoll = [status |-> "idle"]
    /\ liveAlerts = <<>>

\* One evaluation cycle of the Alert Generator.
EvaluateAlerts(conds) ==
    /\ Len(alertHistory) < MaxCycles
    /\ LET t == Len(alertHistory) + 1
           new == NewAlerts(conds, alertHistory, alertLast, t, Len(serverAlerts))
       IN  /\ alertHistory' = Append(alertHistory, conds)
           /\ serverAlerts' = serverAlerts \o new
           /\ alertLast' = [k \in Range(AlertKeys) |->
                               IF ShouldRaise(k, conds, alertHistory, alertLast, t)
                               THEN t ELSE alertLast[k]]
    /\ UNCHANGED <<alertPoll, liveAlerts>>
    /\ UNCHANGED othersAlert

\* fetchAlerts(): the initial call or a tick of the interval.
fetchAlerts ==
    /\ alertPoll.status = "idle"
    /\ alertPoll' = [status |-> "sent"]
    /\ UNCHANGED <<alertHistory, alertLast, serverAlerts, liveAlerts>>
    /\ UNCHANGED othersAlert

\* The server answers with the alerts it holds, or the request fails.
AnswerAlerts(ok) ==
    /\ alertPoll.status = "sent"
    /\ alertPoll' = [status |-> "answered", ok |-> ok,
                     data |-> IF ok THEN serverAlerts ELSE <<>>]
    /\ UNCHANGED <<alertHistory, alertLast, serverAlerts, liveAlerts>>
    /\ UNCHANGED othersAlert

alertsAfter_Append(data, old) == old \o data

\* .then(data => setAlerts(data))
alertsAfter(data, old) == data

\* The .then or the .catch callback of fetchAlerts.
DeliverAlerts ==
    /\ alertPoll.status = "answered"
    /\ alertPoll' = [status |-> "idle"]
    /\ liveAlerts' = IF alertPoll.ok THEN alertsAfter(alertPoll.data, liveAlerts)
                     ELSE liveAlerts
    /\ UNCHANGED <<alertHistory, alertLast, serverAlerts>>
    /\ UNCHANGED othersAlert

AlertNext ==
    \/ \E conds \in Conditions : EvaluateAlerts(conds)
    \/ fetchAlerts
    \/ \E ok \in BOOLEAN : AnswerAlerts(ok)
    \/ DeliverAlerts

-----------------------------------------------------------------------------
(* The Report Trust Scorer: the accept / reject decision on a submitted    *)
(* report, from the reports its fingerprint has stored within the minute.  *)

RateLimit == 10    \* reports a fingerprint may store within one minute

\* The submitter fingerprints.
Fingerprints == {1, 2}

\* The reports stored within the last minute by the fingerprints other than f.
RECURSIVE SumOthers(_, _, _)
SumOthers(recent, f, S) ==
    IF S = {} THEN 0
    ELSE LET g == CHOOSE x \in S : TRUE
         IN  (IF g = f THEN 0 ELSE recent[g]) + SumOthers(recent, f, S \ {g})

\* The decision on a report of fingerprint f: rejected for implausible
\* coordinates, rejected when f has stored RateLimit reports within the
\* last minute, accepted otherwise.  seen and others record the counts
\* the decision was taken with.
Decide(f, plausible, recent) ==
    [fingerprint |-> f,
     plausible   |-> plausible,
     seen        |-> recent[f],
     others      |-> SumOthers(recent, f, Fingerprints),
     accepted    |-> plausible /\ recent[f] < RateLimit,
     reason      |-> IF ~plausible THEN "Implausible coordinates"
                     ELSE IF recent[f] >= RateLimit THEN "Too many reports"
                     ELSE "none"]

TrustInit ==
    /\ recentReports = [f \in Fingerprints |-> 0]
    /\ verdict = [fingerprint |-> 0, plausible |-> TRUE, seen |-> 0, others |-> 0,
                  accepted |-> FALSE, reason |-> "none"]

\* A report of fingerprint f is scored; an accepted report is stored.
ScoreReport(f, plausible) ==
    /\ verdict' = Decide(f, plausible, recentReports)
    /\ recentReports' = IF verdict'.accepted
                        THEN [recentReports EXCEPT ![f] = @ + 1]
                        ELSE recentReports
    /\ UNCHANGED othersTrust

\* Time passes: the oldest report fingerprint f has stored within the
\* last minute becomes older than a minute.
ExpireReport(f) ==
    /\ recentReports[f] > 0
    /\ recentReports' = [recentReports EXCEPT ![f] = @ - 1]
    /\ UNCHANGED verdict
    /\ UNCHANGED othersTrust

\* The response ReportModal gets for a decision.
ReplyFor(v) ==
    [fetched     |-> TRUE,
     ok          |-> v.accepted,
     parsable    |-> TRUE,
     trust_score |-> IF v.accepted THEN 1 ELSE Null,
     detail      |-> v.reason]

TrustNext ==
    \/ \E f \in Fingerprints, plausible \in BOOLEAN : ScoreReport(f, plausible)
    \/ \E f \in Fingerprints : ExpireReport(f)

-----------------------------------------------------------------------------
(* SymptomChecker: the questionnaire and calculateRisk                     *)

AnswerKeys == {"fever", "cough", "breathing", "sore_throat", "body_aches", "contact"}

NoAnswers == [k \in AnswerKeys |-> FALSE]

calculateRisk(a) ==
    IF (a.fever /\ a.breathing) \/ (a.contact /\ a.fever) THEN "High"
    ELSE IF a.fever /\ (a.cough \/ a.sore_throat \/ a.body_aches) THEN "Moderate"
    ELSE IF a.fever \/ a.cough \/ a.contact \/ a.sore_throat THEN "Low"
    ELSE "None"

CheckerInit ==
    /\ scOpen = FALSE
    /\ scStep = "intro"
    /\ scAnswers = NoAnswers
    /\ scRisk = "not shown"

\* Dashboard: onClick={() => setShowChecker(true)}
OpenChecker ==
    /\ ~scOpen
    /\ scOpen' = TRUE
    /\ UNCHANGED <<scStep, scAnswers, scRisk>>
    /\ UNCHANGED othersChecker

\* onClick={() => setStep('form')}
StartCheck ==
    /\ scOpen /\ scStep = "intro"
    /\ scStep' = "form"
    /\ UNCHANGED <<scOpen, scAnswers, scRisk>>
    /\ UNCHANGED othersChecker

\* handleCheck(key): a checkbox of the form is toggled.
handleCheck(key) ==
    /\ scOpen /\ scStep = "form"
    /\ scAnswers' = [scAnswers EXCEPT ![key] = ~@]
    /\ UNCHANGED <<scOpen, scStep, scRisk>>
    /\ UNCHANGED othersChecker

\* onClick={() => setStep('result')}: the result step renders getResult(),
\* which calls calculateRisk().
ShowResult ==
    /\ scOpen /\ scStep = "form"
    /\ scStep' = "result"
    /\ scRisk' = calculateRisk(scAnswers)
    /\ UNCHANGED <<scOpen, scAnswers>>
    /\ UNCHANGED othersChecker

\* reset(): the close button of the header and of the result step.
reset ==
    /\ scOpen
    /\ scStep' = "intro"
    /\ scAnswers' = NoAnswers
    /\ scRisk' = "not shown"
    /\ scOpen' = FALSE
    /\ UNCHANGED othersChecker

CheckerNext ==
    \/ OpenChecker
    \/ StartCheck
    \/ \E key \in AnswerKeys : handleCheck(key)
    \/ ShowResult
    \/ reset

-----------------------------------------------------------------------------
(* HospitalPortal: the mount effect that checks the stored credentials,    *)
(* loads the data and starts the 30 s polling interval.                    *)

MaxPortalTicks == 2   \* ticks of the polling interval per mount

\* What localStorage can hold: getItem returns null ("none") for a missing key.
Tokens == {"none", "jwt-a", "jwt-b"}
Roles == {"none", "admin", "viewer"}

NoCalls == [fetchData |-> 0, checkAlerts |-> 0, fetchProfile |-> 0, fetchKey |-> 0]

\* The portal before it is mounted and after it is unmounted.
Unmounted ==
    [mounted |-> FALSE, t |-> "none", role |-> "none", route |-> "none",
     alerted |-> FALSE, calls |-> NoCalls, started |-> 0]

mountOutcome_NoRoleCheck(t, role) == IF t = "none" THEN "login" ELSE "load"

\* if (!t) { ...; return }  if (role !== 'admin') { ...; return }
mountOutcome(t, role) ==
    IF t = "none" THEN "login"
    ELSE IF role # "admin" THEN "denied"
    ELSE "load"

PortalInit ==
    /\ storage = [token |-> "none", role |-> "none"]
    /\ portal = Unmounted
    /\ portalLive = 0

\* The login page, handleLogout or another tab writes localStorage.
SetStorage(token, role) ==
    /\ storage # [token |-> token, role |-> role]
    /\ storage' = [token |-> token, role |-> role]
    /\ UNCHANGED <<portal, portalLive>>
    /\ UNCHANGED othersPortal

\* The mount effect of HospitalPortal.
MountPortal ==
    /\ ~portal.mounted
    /\ LET t == storage.token
           role == storage.role
           outcome == mountOutcome(t, role)
       IN  /\ portal' =
                [mounted |-> TRUE, t |-> t, role |-> role,
                 route   |-> IF outcome = "login" THEN "/login"
                             ELSE IF outcome = "denied" THEN "/" ELSE "none",
                 alerted |-> outcome = "denied",
                 calls   |-> IF outcome = "load"
                             THEN [fetchData |-> 1, checkAlerts |-> 1,
                                   fetchProfile |-> 1, fetchKey |-> 1]
                             ELSE NoCalls,
                 started |-> IF outcome = "load" THEN 1 ELSE 0]
           /\ portalLive' = IF outcome = "load" THEN portalLive + 1 ELSE portalLive
    /\ UNCHANGED storage
    /\ UNCHANGED othersPortal

\* A tick of the interval: fetchData(t); checkAlerts(t)
PortalTick ==
    /\ portalLive > 0
    /\ portal.calls.fetchData <= MaxPortalTicks
    /\ portal' = [portal EXCEPT !.calls.fetchData = @ + 1, !.calls.checkAlerts = @ + 1]
    /\ UNCHANGED <<storage, portalLive>>
    /\ UNCHANGED othersPortal

\* The portal unmounts: the cleanup the effect returned, if any, runs.
UnmountPortal ==
    /\ portal.mounted
    /\ portal' = Unmounted
    /\ portalLive' = IF portal.started > 0 THEN portalLive - 1 ELSE portalLive
    /\ UNCHANGED storage
    /\ UNCHANGED othersPortal

PortalNext ==
    \/ \E token \in Tokens, role \in Roles : SetStorage(token, role)
    \/ MountPortal
    \/ PortalTick
    \/ UnmountPortal

-----------------------------------------------------------------------------
(* LoginPage: sign-in and registration form (src/unnamed/part_002)          *)

\* The texts the user types; the empty text is the cleared field.
Usernames == {"", "alice"}
Passwords == {"", "pw"}

\* The ways an authentication request ends: an OK response, a non-OK response
\* with or without a detail, a response whose body is not JSON, no response.
AuthReplies == {"ok", "rejected", "rejectedNoDetail", "unparsable", "netError"}

AuthReplyOf(kind) ==
    [fetched      |-> kind # "netError",
     ok           |-> kind = "ok",
     parsable     |-> kind \in {"ok", "rejected", "rejectedNoDetail"},
     detail       |-> IF kind = "rejected" THEN "Invalid credentials" ELSE "none",
     access_token |-> IF kind = "ok" THEN "jwt-a" ELSE "none",
     role         |-> IF kind = "ok" THEN "admin" ELSE "none"]

NoAuthRequest ==
    [status |-> "idle", isLogin |-> TRUE, username |-> "", reply |-> AuthReplyOf("netError")]

NoCredentials == [token |-> "none", role |-> "none", username |-> "none"]

LoginInit ==
    /\ lpIsLogin = TRUE
    /\ lpUsername = ""
    /\ lpPassword = ""
    /\ lpError = ""
    /\ lpSuccessMsg = ""
    /\ lpLoading = FALSE
    /\ lpRequest = NoAuthRequest
    /\ lpStorage = NoCredentials
    /\ lpLocation = "/login"

\* onChange of the username input.
setUsername(text) ==
    /\ lpLocation = "/login"
    /\ lpUsername # text
    /\ lpUsername' = text
    /\ UNCHANGED <<lpIsLogin, lpPassword, lpError, lpSuccessMsg, lpLoading,
                   lpRequest, lpStorage, lpLocation>>
    /\ UNCHANGED othersLogin

\* onChange of the password input.
setPassword(text) ==
    /\ lpLocation = "/login"
    /\ lpPassword # text
    /\ lpPassword' = text
    /\ UNCHANGED <<lpIsLogin, lpUsername, lpError, lpSuccessMsg, lpLoading,
                   lpRequest, lpStorage, lpLocation>>
    /\ UNCHANGED othersLogin

\* The button under the form: setIsLogin(!isLogin). It stays enabled while a
\* request is in flight.
toggleMode ==
    /\ lpLocation = "/login"
    /\ lpIsLogin' = ~lpIsLogin
    /\ UNCHANGED <<lpUsername, lpPassword, lpError, lpSuccessMsg, lpLoading,
                   lpRequest, lpStorage, lpLocation>>
    /\ UNCHANGED othersLogin

\* handleSubmit up to its await. The form submits only with both required
\* inputs filled and the submit button (disabled={loading}) enabled. The
\* handler keeps the isLogin and username of the render it was created in.
handleSubmit ==
    /\ lpLocation = "/login"
    /\ ~lpLoading
    /\ lpUsername # ""
    /\ lpPassword # ""
    /\ lpError' = ""
    /\ lpSuccessMsg' = ""
    /\ lpLoading' = TRUE
    /\ lpRequest' = [status |-> "sent", isLogin |-> lpIsLogin,
                     username |-> lpUsername, reply |-> AuthReplyOf("netError")]
    /\ UNCHANGED <<lpIsLogin, lpUsername, lpPassword, lpStorage, lpLocation>>
    /\ UNCHANGED othersLogin

\* The server, or the network, ends the request.
AnswerLogin(kind) ==
    /\ lpRequest.status = "sent"
    /\ lpRequest' = [lpRequest EXCEPT !.status = "answered", !.reply = AuthReplyOf(kind)]
    /\ UNCHANGED <<lpIsLogin, lpUsername, lpPassword, lpError, lpSuccessMsg,
                   lpLoading, lpStorage, lpLocation>>
    /\ UNCHANGED othersLogin

\* Mutation of Authenticated: the status of the response is not looked at.
Authenticated_IgnoreOk(reply) == reply.fetched /\ reply.parsable

\* The try block reaches the lines after `if (!res.ok) throw`: fetch resolved,
\* res.json() resolved, and the status is OK.
Authenticated(reply) == reply.fetched /\ reply.parsable /\ reply.ok

\* err.message of the catch block.
errorMessage(reply) ==
    IF ~reply.fetched THEN "Failed to fetch"
    ELSE IF ~reply.parsable THEN "Unexpected token"
    ELSE IF reply.detail # "none" THEN reply.detail
    ELSE "Authentication failed"

RegisteredMsg == "Registration successful! Please sign in with your new account."

\* handleSubmit after its await: the rest of try, catch and finally.
DeliverLogin ==
    /\ lpRequest.status = "answered"
    /\ LET req == lpRequest
           reply == lpRequest.reply
           done == Authenticated(reply)
       IN  /\ lpStorage' = IF done /\ req.isLogin
                           THEN [token |-> reply.access_token, role |-> reply.role,
                                 username |-> req.username]
                           ELSE lpStorage
           /\ lpLocation' = IF done /\ req.isLogin THEN "/" ELSE lpLocation
           /\ lpIsLogin' = IF done /\ ~req.isLogin THEN TRUE ELSE lpIsLogin
           /\ lpSuccessMsg' = IF done /\ ~req.isLogin THEN RegisteredMsg ELSE lpSuccessMsg
           /\ lpPassword' = IF done /\ ~req.isLogin THEN "" ELSE lpPassword
           /\ lpError' = IF done THEN lpError ELSE errorMessage(reply)
    /\ lpLoading' = FALSE
    /\ lpRequest' = NoAuthRequest
    /\ UNCHANGED lpUsername
    /\ UNCHANGED othersLogin

LoginNext ==
    \/ \E text \in Usernames : setUsername(text)
    \/ \E text \in Passwords : setPassword(text)
    \/ toggleMode
    \/ handleSubmit
    \/ \E kind \in AuthReplies : AnswerLogin(kind)
    \/ DeliverLogin

-----------------------------------------------------------------------------
(* HospitalPortal.fetchData: the three parallel reads (src/unnamed/part_002) *)

\* The invocations of fetchData that can run at the same time: the mount
\* effect, the polling interval and the handlers each start one without
\* waiting for the one before. An invocation delivers its own payload.
Invocations == {1, 2}

\* recRes, capRes, anaRes in the order of the Promise.all array.
Endpoints == <<"recent", "capacity", "analytics">>

Statuses == {200, 401, 500}

\* What Promise.all settles with: three responses, or a rejection as soon as
\* one fetch rejects.
DataReplies ==
    {[fetched |-> TRUE, status |-> st] : st \in [1..3 -> Statuses]}
    \cup {[fetched |-> FALSE, status |-> [i \in 1..3 |-> 500]]}

NoDataReply == [fetched |-> FALSE, status |-> [i \in 1..3 |-> 500]]

IdleCall == [pc |-> "idle", at |-> 0, reply |-> NoDataReply]

\* res.ok
IsOk(status) == status \in 200..299

FetchInit ==
    /\ fdEntries = 0
    /\ fdCapacity = 0
    /\ fdAnalytics = 0
    /\ fdLoading = TRUE
    /\ fdToken = "jwt-a"
    /\ fdRoute = "/portal"
    /\ fdCalls = [c \in Invocations |-> IdleCall]

\* fetchData up to `await Promise.all`. The portal calls it while mounted.
fetchData(c) ==
    /\ fdRoute = "/portal"
    /\ fdCalls[c].pc = "idle"
    /\ fdCalls' = [fdCalls EXCEPT ![c].pc = "sent"]
    /\ UNCHANGED <<fdEntries, fdCapacity, fdAnalytics, fdLoading, fdToken, fdRoute>>
    /\ UNCHANGED othersFetch

\* The three requests of one invocation settle.
AnswerData(c, reply) ==
    /\ fdCalls[c].pc = "sent"
    /\ fdCalls' = [fdCalls EXCEPT ![c].pc = "answered", ![c].reply = reply]
    /\ UNCHANGED <<fdEntries, fdCapacity, fdAnalytics, fdLoading, fdToken, fdRoute>>
    /\ UNCHANGED othersFetch

\* Mutation of Unauthorized: only the first response is looked at.
Unauthorized_FirstOnly(reply) == reply.status[1] = 401

\* recRes.status === 401 || capRes.status === 401 || anaRes.status === 401
Unauthorized(reply) == \E i \in 1..3 : reply.status[i] = 401

\* The next `if (res.ok) set...(await res.json())` after position i whose
\* condition holds; 0 when none is left.
NextOk(reply, i) ==
    IF \E j \in (i+1)..3 : IsOk(reply.status[j])
    THEN CHOOSE j \in (i+1)..3 :
             /\ IsOk(reply.status[j])
             /\ \A k \in (i+1)..(j-1) : ~IsOk(reply.status[k])
    ELSE 0

\* The invocation runs on to its next await of res.json(), or through finally.
RunOn(c, i) ==
    LET j == NextOk(fdCalls[c].reply, i)
    IN  IF j = 0
        THEN /\ fdLoading' = FALSE
             /\ fdCalls' = [fdCalls EXCEPT ![c] = IdleCall]
        ELSE /\ fdLoading' = fdLoading
             /\ fdCalls' = [fdCalls EXCEPT ![c].pc = "json", ![c].at = j]

\* fetchData resumes after `await Promise.all`: catch on a rejection, the 401
\* branch, or the first res.json().
ResumeData(c) ==
    /\ fdCalls[c].pc = "answered"
    /\ LET reply == fdCalls[c].reply
       IN  IF ~reply.fetched
           THEN /\ fdLoading' = FALSE
                /\ fdCalls' = [fdCalls EXCEPT ![c] = IdleCall]
                /\ UNCHANGED <<fdToken, fdRoute>>
           ELSE IF Unauthorized(reply)
           THEN /\ fdToken' = "none"
                /\ fdRoute' = "/login"
                /\ fdLoading' = FALSE
                /\ fdCalls' = [fdCalls EXCEPT ![c] = IdleCall]
           ELSE /\ RunOn(c, 0)
                /\ UNCHANGED <<fdToken, fdRoute>>
    /\ UNCHANGED <<fdEntries, fdCapacity, fdAnalytics>>
    /\ UNCHANGED othersFetch

\* res.json() of the awaited response resolves: its setter runs, then the
\* invocation runs on.
JsonResolved(c) ==
    /\ fdCalls[c].pc = "json"
    /\ LET i == fdCalls[c].at
       IN  /\ fdEntries' = IF i = 1 THEN c ELSE fdEntries
           /\ fdCapacity' = IF i = 2 THEN c ELSE fdCapacity
           /\ fdAnalytics' = IF i = 3 THEN c ELSE fdAnalytics
           /\ RunOn(c, i)
    /\ UNCHANGED <<fdToken, fdRoute>>
    /\ UNCHANGED othersFetch

\* res.json() of the awaited response rejects: catch, then finally.
JsonRejected(c) ==
    /\ fdCalls[c].pc = "json"
    /\ fdLoading' = FALSE
    /\ fdCalls' = [fdCalls EXCEPT ![c] = IdleCall]
    /\ UNCHANGED <<fdEntries, fdCapacity, fdAnalytics, fdToken, fdRoute>>
    /\ UNCHANGED othersFetch

FetchNext ==
    \/ \E c \in Invocations : fetchData(c)
    \/ \E c \in Invocations, reply \in DataReplies : AnswerData(c, reply)
    \/ \E c \in Invocations : ResumeData(c)
    \/ \E c \in Invocations : JsonResolved(c)
    \/ \E c \in Invocations : JsonRejected(c)

-----------------------------------------------------------------------------
(* Dashboard: time-lapse playback and the modals (src/frontend/app/page.tsx) *)

\* The most dates a history has.
MaxDates == 4

\* useState(false) of showSim.
showSimInitial_Open == TRUE

showSimInitial == FALSE

\* The state after the mount: the playback effect has run once (with
\* sliderIndex = -1 = dates.length - 1 it calls setIsPlaying(false), which
\* changes nothing) and the history request is out.
PageInit ==
    /\ dates = <<>>
    /\ sliderIndex = -1
    /\ isPlaying = FALSE
    /\ playInterval = FALSE
    /\ effectDue = FALSE
    /\ historyFetch = "pending"
    /\ showSim = showSimInitial

\* Mutation of indexAfterLoad: the length instead of the last index.
indexAfterLoad_Length(n) == n

\* setSliderIndex(sortedDates.length - 1)
indexAfterLoad(n) == n - 1

\* The history arrives as an object with n keys: setHistory, setDates of the
\* sorted keys, setSliderIndex(sortedDates.length - 1).
HistoryLoaded(n) ==
    /\ historyFetch = "pending"
    /\ historyFetch' = "done"
    /\ dates' = [i \in 1..n |-> i]
    /\ sliderIndex' = indexAfterLoad(n)
    /\ effectDue' = (effectDue \/ n > 0)
    /\ UNCHANGED <<isPlaying, playInterval, showSim>>
    /\ UNCHANGED othersPage

\* The request fails or its body is not JSON: the promise chain has no catch.
HistoryFailed ==
    /\ historyFetch = "pending"
    /\ historyFetch' = "failed"
    /\ UNCHANGED <<dates, sliderIndex, isPlaying, playInterval, effectDue, showSim>>
    /\ UNCHANGED othersPage

\* The playback effect after a render in which isPlaying, sliderIndex or
\* dates changed: the cleanup of the run before clears its interval, then the
\* body sets a new one or stops the playback.
playbackEffect ==
    /\ effectDue
    /\ IF isPlaying /\ sliderIndex < Len(dates) - 1
       THEN /\ playInterval' = TRUE
            /\ effectDue' = FALSE
            /\ UNCHANGED isPlaying
       ELSE /\ playInterval' = FALSE
            /\ isPlaying' = IF sliderIndex >= Len(dates) - 1 THEN FALSE ELSE isPlaying
            /\ effectDue' = (sliderIndex >= Len(dates) - 1 /\ isPlaying)
    /\ UNCHANGED <<dates, sliderIndex, historyFetch, showSim>>
    /\ UNCHANGED othersPage

\* Mutation of tickUpdater: the updater does not look at the last index.
tickUpdater_NoStop(prev, length) == prev + 1

\* The value the updater passed to setSliderIndex returns.
tickUpdater(prev, length) == IF prev >= length - 1 THEN prev ELSE prev + 1

\* The interval fires: the updater passed to setSliderIndex. It can fire
\* again before the effect of the render it caused has replaced it.
Tick ==
    /\ playInterval
    /\ sliderIndex' = tickUpdater(sliderIndex, Len(dates))
    /\ isPlaying' = IF sliderIndex >= Len(dates) - 1 THEN FALSE ELSE isPlaying
    /\ effectDue' = (effectDue \/ sliderIndex' # sliderIndex \/ isPlaying' # isPlaying)
    /\ UNCHANGED <<dates, playInterval, historyFetch, showSim>>
    /\ UNCHANGED othersPage

\* The play/pause button, rendered when dates.length > 0.
PlayButton ==
    /\ Len(dates) > 0
    /\ sliderIndex' = IF sliderIndex >= Len(dates) - 1 THEN 0 ELSE sliderIndex
    /\ isPlaying' = ~isPlaying
    /\ effectDue' = TRUE
    /\ UNCHANGED <<dates, playInterval, historyFetch, showSim>>
    /\ UNCHANGED othersPage

\* onChange of the range input (min 0, max dates.length - 1).
Slider(v) ==
    /\ Len(dates) > 0
    /\ v \in 0..(Len(dates) - 1)
    /\ sliderIndex' = v
    /\ isPlaying' = FALSE
    /\ effectDue' = (effectDue \/ v # sliderIndex \/ isPlaying)
    /\ UNCHANGED <<dates, playInterval, historyFetch, showSim>>
    /\ UNCHANGED othersPage

\* The controls of the three modals that are on the page: the two header
\* buttons, the close buttons of the open modals, and, SimulatorPanel
\* returning null unless isOpen, its buttons only when showSim.
ModalControls ==
    {"Check Symptoms", "Report"}
    \cup (IF scOpen THEN {"close checker"} ELSE {})
    \cup (IF rmOpen THEN {"close report"} ELSE {})
    \cup (IF showSim THEN {"Run Projection", "close simulator"} ELSE {})

ClickModal(control) ==
    /\ control \in ModalControls
    /\ CASE control = "Check Symptoms" -> IF scOpen THEN reset ELSE OpenChecker
         [] control = "Report" -> IF rmOpen THEN CloseReport ELSE OpenReport
         [] control = "close checker" -> reset
         [] control = "close report" -> CloseReport
         [] control = "Run Projection" -> runSimulation
         [] control = "close simulator" ->
                /\ showSim' = FALSE
                /\ UNCHANGED <<dates, sliderIndex, isPlaying, playInterval,
                               effectDue, historyFetch>>
                /\ UNCHANGED othersPage

PageNext ==
    \/ \E n \in 0..MaxDates : HistoryLoaded(n)
    \/ HistoryFailed
    \/ playbackEffect
    \/ Tick
    \/ PlayButton
    \/ \E v \in 0..(MaxDates - 1) : Slider(v)
    \/ \E control \in ModalControls : ClickModal(control)

-----------------------------------------------------------------------------
(* HospitalPortal: the debounced hospital search (src/unnamed/part_002)     *)

\* The delay of the debounce timer, in milliseconds.
Debounce == 500

\* The most search requests sent.
MaxSearches == 2

\* The texts of the search field: empty, three, four and five characters.
Queries == {"", "abc", "abcd", "abcde"}

\* The amounts of time, in milliseconds, that pass between two events.
Elapses == {250, 500}

TimerFor(query) == [query |-> query, remaining |-> Debounce]

\* Mutation of timersAfterChange: the timer of the run before is not cleared.
timersAfterChange_NoCleanup(old, query) == old \cup {TimerFor(query)}

\* The debounce effect after searchQuery changed: its cleanup clears the
\* timer of the run before, its body sets a new one.
timersAfterChange(old, query) == {TimerFor(query)}

\* The state after the mount: the effect has set its first timer.
SearchInit ==
    /\ searchQuery = ""
    /\ searchResults = <<>>
    /\ isSearching = FALSE
    /\ timers = {TimerFor("")}
    /\ sinceChange = 0
    /\ searchCount = 0
    /\ searches = {}

\* onChange of the search field: setSearchQuery(e.target.value).
setSearchQuery(query) ==
    /\ query # searchQuery
    /\ searchQuery' = query
    /\ timers' = timersAfterChange(timers, query)
    /\ sinceChange' = 0
    /\ UNCHANGED <<searchResults, isSearching, searchCount, searches>>
    /\ UNCHANGED othersSearch

\* A click on an entry of the results dropdown (the profile it fills is left
\* out): setSearchResults([]), setSearchQuery('').
selectHospital ==
    /\ searchResults # <<>>
    /\ searchResults' = <<>>
    /\ searchQuery' = ""
    /\ timers' = IF searchQuery = "" THEN timers ELSE timersAfterChange(timers, "")
    /\ sinceChange' = IF searchQuery = "" THEN sinceChange ELSE 0
    /\ UNCHANGED <<isSearching, searchCount, searches>>
    /\ UNCHANGED othersSearch

\* Time passes.
Elapse(d) ==
    /\ sinceChange < Debounce \/ \E t \in timers : t.remaining > 0
    /\ timers' = {[t EXCEPT !.remaining = IF @ > d THEN @ - d ELSE 0] : t \in timers}
    /\ sinceChange' = IF sinceChange + d > Debounce THEN Debounce ELSE sinceChange + d
    /\ UNCHANGED <<searchQuery, searchResults, isSearching, searchCount, searches>>
    /\ UNCHANGED othersSearch

\* A timer that is due fires: the callback of setTimeout, with searchHospitals
\* up to its await.
TimerFires(t) ==
    /\ t \in timers
    /\ t.remaining = 0
    /\ timers' = timers \ {t}
    /\ IF Len(t.query) > 3
       THEN /\ searchCount < MaxSearches
            /\ isSearching' = TRUE
            /\ searchCount' = searchCount + 1
            /\ searches' = searches \cup {[id |-> searchCount + 1, query |-> t.query]}
            /\ UNCHANGED searchResults
       ELSE /\ searchResults' = <<>>
            /\ UNCHANGED <<isSearching, searchCount, searches>>
    /\ UNCHANGED <<searchQuery, sinceChange>>
    /\ UNCHANGED othersSearch

\* The search request is answered: setSearchResults(data), then finally.
SearchResolved(r) ==
    /\ r \in searches
    /\ searches' = searches \ {r}
    /\ searchResults' = <<r.query>>
    /\ isSearching' = FALSE
    /\ UNCHANGED <<searchQuery, timers, sinceChange, searchCount>>
    /\ UNCHANGED othersSearch

\* The search request fails or its body is not JSON: catch, then finally.
SearchFailed(r) ==
    /\ r \in searches
    /\ searches' = searches \ {r}
    /\ isSearching' = FALSE
    /\ UNCHANGED <<searchQuery, searchResults, timers, sinceChange, searchCount>>
    /\ UNCHANGED othersSearch

SearchNext ==
    \/ \E query \in Queries : setSearchQuery(query)
    \/ selectHospital
    \/ \E d \in Elapses : Elapse(d)
    \/ \E t \in timers : TimerFires(t)
    \/ \E r \in searches : SearchResolved(r)
    \/ \E r \in searches : SearchFailed(r)

-----------------------------------------------------------------------------
(* ERPSimulator: the auto-simulation interval (src/unnamed/part_001)        *)

\* The most simulations started and the most records generated.
MaxStarts == 3
MaxRecords == 3

\* Positions of the speed slider (min 200, max 5000), in milliseconds.
Speeds == {200, 2000, 5000}

ErpInit ==
    /\ isSimulating = FALSE
    /\ simSpeed = 2000
    /\ intervalRef = Null
    /\ liveIntervals = {}
    /\ started = 0
    /\ generated = 0
    /\ erpMounted = TRUE

\* onChange of the speed slider.
setSimSpeed(speed) ==
    /\ erpMounted
    /\ speed # simSpeed
    /\ simSpeed' = speed
    /\ UNCHANGED <<isSimulating, intervalRef, liveIntervals, started, generated, erpMounted>>
    /\ UNCHANGED othersErp

\* Mutation of clearCurrent: clearInterval is not called.
clearCurrent_NoClear(live, ref) == live

\* if (intervalRef.current) clearInterval(intervalRef.current)
clearCurrent(live, ref) == {t \in live : t.id # ref}

\* The start/stop button. Each click is handled by the handler of the render
\* that followed the click before.
toggleSimulation ==
    /\ erpMounted
    /\ IF isSimulating
       THEN /\ liveIntervals' = clearCurrent(liveIntervals, intervalRef)
            /\ isSimulating' = FALSE
            /\ UNCHANGED <<intervalRef, started>>
       ELSE /\ started < MaxStarts
            /\ isSimulating' = TRUE
            /\ started' = started + 1
            /\ intervalRef' = started + 1
            /\ liveIntervals' = liveIntervals \cup {[id |-> started + 1, delay |-> simSpeed]}
    /\ UNCHANGED <<simSpeed, generated, erpMounted>>
    /\ UNCHANGED othersErp

\* An interval fires: generateRandomPatient() and sendData(p).
IntervalFires(t) ==
    /\ t \in liveIntervals
    /\ generated < MaxRecords
    /\ generated' = generated + 1
    /\ UNCHANGED <<isSimulating, simSpeed, intervalRef, liveIntervals, started, erpMounted>>
    /\ UNCHANGED othersErp

\* The page is left: the cleanup of the mount effect.
UnmountSimulator ==
    /\ erpMounted
    /\ erpMounted' = FALSE
    /\ liveIntervals' = clearCurrent(liveIntervals, intervalRef)
    /\ UNCHANGED <<isSimulating, simSpeed, intervalRef, started, generated>>
    /\ UNCHANGED othersErp

ErpNext ==
    \/ \E speed \in Speeds : setSimSpeed(speed)
    \/ toggleSimulation
    \/ \E t \in liveIntervals : IntervalFires(t)
    \/ UnmountSimulator

-----------------------------------------------------------------------------
(* Specifications, one per component *)

AllInit == HullInit /\ RiskInit /\ MapInit /\ DashInit /\ ReportInit /\ SimInit
           /\ ChartInit /\ AlertInit /\ TrustInit /\ CheckerInit /\ PortalInit
           /\ LoginInit
           /\ FetchInit
           /\ PageInit
           /\ SearchInit
           /\ ErpInit

Spec == AllInit /\ [][DashNext]_vars

HullSpec == AllInit /\ [][HullNext]_vars

RiskSpec == AllInit /\ [][RiskNext]_vars

MapSpec == AllInit /\ [][MapNext]_vars

ReportSpec == AllInit /\ [][ReportNext]_vars

SimSpec == AllInit /\ [][SimNext]_vars

ChartSpec == AllInit /\ [][ChartNext]_vars

AlertSpec == AllInit /\ [][AlertNext]_vars

TrustSpec == AllInit /\ [][TrustNext]_vars

CheckerSpec == AllInit /\ [][CheckerNext]_vars

PortalSpec == AllInit /\ [][PortalNext]_vars

LoginSpec == AllInit /\ [][LoginNext]_vars

FetchSpec == AllInit /\ [][FetchNext]_vars

PageSpec == AllInit /\ [][PageNext]_vars

SearchSpec == AllInit /\ [][SearchNext]_vars

ErpSpec == AllInit /\ [][ErpNext]_vars



\* Timers fire and effects run.
PageFairSpec ==
    /\ AllInit /\ [][PageNext]_vars
    /\ WF_vars(Tick)
    /\ WF_vars(playbackEffect)




\* The server answers every request and every response is handled.
ReportFairSpec ==
    /\ ReportSpec
    /\ WF_vars(\E i \in 1..MaxSubmits, kind \in SubmitReplies : AnswerSubmit(i, kind))
    /\ WF_vars(\E i \in 1..MaxSubmits : DeliverSubmit(i))
    /\ WF_vars(\E ok \in BOOLEAN : AnswerReports(ok))
    /\ WF_vars(DeliverReports)

-----------------------------------------------------------------------------
(* Properties of getConvexHull, stated on the output pairs [lat, lon]      *)
(* with longitude as x and latitude as y.                                  *)

\* The input points as [lat, lon] pairs.
InputPairs == {<<points[i].latitude, points[i].longitude>> : i \in 1..Len(points)}

\* Twice the signed area of the triangle o, a, b: positive for a left turn.
Orient(o, a, b) == (a[2] - o[2]) * (b[1] - o[1]) - (a[1] - o[1]) * (b[2] - o[2])

AllCollinear == \A o \in InputPairs, a \in InputPairs, b \in InputPairs : Orient(o, a, b) = 0

\* Successor index on the cyclic sequence boundary.
NextIdx(i) == (i % Len(boundary)) + 1

\* a comes no later than b in (longitude, latitude) order.
LonLatLeq(a, b) == a[2] < b[2] \/ (a[2] = b[2] /\ a[1] <= b[1])

SameMembers(s, t) ==
    /\ Len(s) = Len(t)
    /\ \A x \in Range(s) :
          Cardinality({i \in 1..Len(s) : s[i] = x}) = Cardinality({i \in 1..Len(t) : t[i] = x})

\* C5: for 3 or more points that are not all collinear the boundary is a
\* sequence of pairwise distinct input points, in counter-clockwise order,
\* forming a strictly convex polygon that has every input point inside or
\* on it.
C5_HullIsConvexPolygon ==
    (Len(points) >= 3 /\ ~AllCollinear) =>
        /\ Len(boundary) >= 3
        /\ \A i \in 1..Len(boundary), j \in 1..Len(boundary) :
              i # j => boundary[i] # boundary[j]
        /\ \A i \in 1..Len(boundary) : boundary[i] \in InputPairs
        /\ \A i \in 1..Len(boundary) :
              Orient(boundary[i], boundary[NextIdx(i)], boundary[NextIdx(NextIdx(i))]) > 0
        /\ \A i \in 1..Len(boundary), q \in InputPairs :
              Orient(boundary[i], boundary[NextIdx(i)], q) >= 0

\* A hull was computed for 4 or more points of which a distinct one is no vertex.
C5_Witness ==
    /\ Len(points) >= 4
    /\ ~AllCollinear
    /\ Len(boundary) >= 3
    /\ Cardinality(InputPairs) > Len(boundary)

\* C6 as stated: for 3 or more collinear points the boundary consists of the
\* input points.
C6_CollinearReturnsInput ==
    (Len(points) >= 3 /\ AllCollinear) => Range(boundary) = InputPairs

\* C6 amended: for 3 or more collinear points the boundary has exactly two
\* entries, the first and the last input point in (longitude, latitude)
\* order (twice the same point when all points are identical).
C6_CollinearReturnsExtremes ==
    (Len(points) >= 3 /\ AllCollinear) =>
        /\ Len(boundary) = 2
        /\ boundary[1] \in InputPairs
        /\ boundary[2] \in InputPairs
        /\ \A q \in InputPairs : LonLatLeq(boundary[1], q) /\ LonLatLeq(q, boundary[2])

\* Three distinct collinear points, and the boundary computed for them.
C6_Witness ==
    /\ Len(points) >= 3
    /\ AllCollinear
    /\ Cardinality(InputPairs) >= 3
    /\ Len(boundary) = 2

\* C7: for fewer than 3 points the boundary is exactly the input points, in
\* input order, as [latitude, longitude] pairs.
C7_FewPointsReturnedAsIs ==
    Len(points) < 3 =>
        /\ Len(boundary) = Len(points)
        /\ \A i \in 1..Len(points) :
              boundary[i] = <<points[i].latitude, points[i].longitude>>

\* Two distinct points, the first with latitude different from longitude.
C7_Witness ==
    /\ Len(points) = 2
    /\ points[1] # points[2]
    /\ points[1].latitude # points[1].longitude
    /\ Len(boundary) = 2

\* C8 as stated: reordering the member list never changes the boundary.
C8_PermutationInvariant ==
    [][SameMembers(points, points') => boundary' = boundary]_vars

\* C8 amended: reordering a list of 3 or more points never changes the
\* boundary; for fewer than 3 points the boundary follows the input order,
\* so a reordering keeps its points and may change their order.
C8_PermutationInvariantFrom3 ==
    [][SameMembers(points, points') =>
          /\ Len(points) >= 3 => boundary' = boundary
          /\ Len(points) < 3 => SameMembers(boundary, boundary')]_vars

\* A list of 3 or more points that is not in sorted order, with its polygon.
C8_Witness ==
    /\ Len(points) >= 3
    /\ points # SortPoints(points)
    /\ Len(boundary) >= 3

-----------------------------------------------------------------------------
(* Properties of RiskSidebar                                               *)

\* The cluster of the clusters prop a card was rendered for.
ClusterOfCard(card) ==
    CHOOSE c \in Range(riskClusters) : c.cluster_id = card.cluster_id

CardsMatchClusters ==
    /\ Len(riskCards) = Len(riskClusters)
    /\ \A i \in 1..Len(riskCards) :
          \E c \in Range(riskClusters) : c.cluster_id = riskCards[i].cluster_id

\* C2 as stated: a cluster with exactly 3 member hospitals is given High.
C2_SizeThreeIsHigh ==
    \A i \in 1..Len(riskCards) :
        Len(ClusterOfCard(riskCards[i]).members) = 3 => riskCards[i].riskLevel = "High"

\* C2 amended: a cluster with exactly 3 member hospitals is given Moderate;
\* 4 members is the smallest size given High.
C2_SizeThreeIsModerate ==
    /\ CardsMatchClusters
    /\ \A i \in 1..Len(riskCards) :
          LET n == Len(ClusterOfCard(riskCards[i]).members)
          IN  /\ n = 3 => riskCards[i].riskLevel = "Moderate"
              /\ n = 4 => riskCards[i].riskLevel = "High"

\* A card was rendered for a cluster of exactly 3 members.
C2_Witness ==
    \E i \in 1..Len(riskCards) :
        /\ riskCards[i].facilities = 3
        /\ Len(ClusterOfCard(riskCards[i]).members) = 3

\* C3 as stated: for some volume threshold that a cluster's aggregate
\* flu-positive count can exceed, every cluster is High if its member count
\* exceeds 3 or its count exceeds the threshold, and Moderate otherwise.
C3_SizeOrVolume ==
    \E threshold \in 0..(MaxVolume - 1) :
        \A i \in 1..Len(riskCards) :
            LET c == ClusterOfCard(riskCards[i])
            IN  riskCards[i].riskLevel =
                    IF Len(c.members) > 3 \/ c.flu_positive > threshold
                    THEN "High" ELSE "Moderate"

\* C3 amended: every cluster is High if its member count exceeds 3 and
\* Moderate otherwise, whatever its aggregate flu-positive count; no other
\* level is produced.
C3_SizeOnly ==
    /\ CardsMatchClusters
    /\ \A i \in 1..Len(riskCards) :
          LET c == ClusterOfCard(riskCards[i])
          IN  /\ riskCards[i].riskLevel \in {"High", "Moderate"}
              /\ riskCards[i].riskLevel = "High" <=> Len(c.members) > 3

\* A card was rendered for a small cluster carrying the largest case count,
\* next to a card for a large cluster.
C3_Witness ==
    /\ \E i \in 1..Len(riskCards) :
          LET c == ClusterOfCard(riskCards[i])
          IN  Len(c.members) <= 3 /\ c.flu_positive = MaxVolume /\ MaxVolume > 0
    /\ \E i \in 1..Len(riskCards) : riskCards[i].facilities > 3

-----------------------------------------------------------------------------
(* Properties of the ClusterMap markers                                    *)

\* C1: every hospital of the hospitals list appears among the rendered
\* features, as Unassigned when it is in no cluster.
C1_EveryHospitalRendered ==
    \A i \in 1..Len(mapHospitals) :
        \E k \in 1..Len(markers) :
            /\ markers[k].hospital_id = mapHospitals[i].hospital_id
            /\ ~InSomeCluster(mapClusters, mapHospitals[i].hospital_id)
                  => markers[k].clusterId = Unassigned

\* C4: with usage data the stress level is CRITICAL exactly above 80,
\* WARNING (rendered as "Warning") exactly from 50 to 80 inclusive, and
\* Normal otherwise; without usage data it is Normal and the marker keeps
\* its cluster color.
C4_StressLevels ==
    \A k \in 1..Len(markers) :
        LET m == markers[k]
        IN  IF m.hasUsage
            THEN /\ m.stressLevel = "CRITICAL" <=> m.icu_utilization > 80
                 /\ m.stressLevel = "Warning"
                       <=> (m.icu_utilization >= 50 /\ m.icu_utilization <= 80)
                 /\ m.stressLevel = "Normal" <=> m.icu_utilization < 50
            ELSE m.stressLevel = "Normal" /\ m.markerColor = m.clusterColor

-----------------------------------------------------------------------------
(* Properties of the Dashboard polling                                     *)

AllArrived == \A p \in 1..Len(polls) : polls[p].status = "done"

\* The value a response body carries for a list field: its data, or [].
Carried(v) == IF v # Null THEN [kind |-> "data", snap |-> v] ELSE [kind |-> "empty", snap |-> Null]

Shown(val) == [kind |-> val.kind, snap |-> val.snap]

\* The response to poll p succeeded and carries clusters and network.
CompleteAnalysis(p) ==
    /\ polls[p].data.ok
    /\ polls[p].data.hasAnalysis
    /\ polls[p].data.clusters # Null
    /\ polls[p].data.network # Null

\* C9: once all responses have arrived, the clusters and the network
\* displayed are those of the response to the most recently issued poll: a
\* response to an older poll does not overwrite them (stated for polls whose
\* responses all succeed and carry clusters and network).
C9_LatestPollShown ==
    (polls # <<>> /\ AllArrived /\ \A p \in 1..Len(polls) : CompleteAnalysis(p)) =>
        /\ Shown(clusters) = Carried(polls[Len(polls)].data.clusters)
        /\ Shown(network) = Carried(polls[Len(polls)].data.network)

\* C10: the displayed clusters and the displayed network were taken from the
\* same response.
C10_ClustersAndNetworkTogether == clusters.poll = network.poll

\* A response whose analysis lacks the network was handled after one that
\* carried both.
C10_Witness ==
    /\ clusters.kind = "data"
    /\ network.kind = "empty"
    /\ clusters.poll > 0
    /\ \E p \in 1..Len(polls) :
          /\ p # clusters.poll
          /\ polls[p].status = "done"
          /\ polls[p].data.hasAnalysis
          /\ polls[p].data.network # Null

\* The poll p failed: network error, unparsable body, or a non-OK response.
FailedPoll(p) == ~polls[p].data.httpOk

\* C11: when the response to a failed poll is handled, the displayed stats,
\* clusters, network and hospital list stay as they were.
C11_FailedPollKeepsDisplay ==
    [][\A p \in 1..Len(polls) :
          (polls[p].status = "answered" /\ polls'[p].status = "done" /\ FailedPoll(p))
             => UNCHANGED <<stats, clusters, network, hospitals>>]_vars

-----------------------------------------------------------------------------
(* Properties of ReportModal and of the reports layer                      *)

\* The response to submission i is handled in this step.
SubmitHandled(i) ==
    /\ i \in 1..Len(submissions)
    /\ submissions[i].status = "answered"
    /\ submissions'[i].status = "done"

\* C12: the modal moves to step 3 and sets trustScore only when the response
\* to a submission is OK; when a submission is rejected or fails, the step
\* stays 2, trustScore is unchanged, an alert is shown for that submission
\* which carries the rejection reason when the response has one, and loading
\* is false again.
C12_StepThreeOnlyWhenAccepted ==
    [][/\ \A i \in 1..Len(submissions) :
             SubmitHandled(i) =>
                LET reply == submissions[i].reply
                IN  /\ rmLoading' = FALSE
                    /\ IF reply.fetched /\ reply.ok
                       THEN rmStep' = 3 /\ rmTrustScore' = reply.trust_score
                       ELSE /\ rmStep = 2 /\ rmStep' = 2
                            /\ rmTrustScore' = rmTrustScore
                            /\ rmAlert'.sub = i
                            /\ rmAlert'.text # "none"
                            /\ reply.detail # "none" => rmAlert'.detail = reply.detail
       /\ (rmStep' = 3 /\ rmStep # 3) \/ rmTrustScore' # rmTrustScore
             => \E i \in 1..Len(submissions) :
                   SubmitHandled(i) /\ submissions[i].reply.fetched /\ submissions[i].reply.ok
      ]_vars

\* A rejected submission was followed by an accepted one.
C12_Witness ==
    /\ rmStep = 3
    /\ rmTrustScore # Null
    /\ rmLoading = FALSE
    /\ \E i, j \in 1..Len(submissions) :
          /\ i < j
          /\ submissions[i].status = "done" /\ submissions[i].reply.detail # "none"
          /\ submissions[j].status = "done" /\ submissions[j].reply.ok
          /\ rmAlert.sub = i /\ rmAlert.detail = submissions[i].reply.detail

\* C13: a report the modal was told is accepted eventually shows in the
\* reports of ClusterMap (stated for a reports request that succeeds).
C13_AcceptedReportSurfaced ==
    \A i \in 1..MaxSubmits :
        [](( /\ i \in 1..Len(submissions)
             /\ submissions[i].status = "done"
             /\ submissions[i].reply.ok
             /\ mapFetch.ok )
           => <>(i \in mapReports))

\* The submissions whose response has not been handled yet.
InFlight == {i \in 1..Len(submissions) : submissions[i].status # "done"}

\* C14: at most one submission is in flight, and every submission sent
\* carries the coordinates of a location fix.
C14_SubmissionsSerialized ==
    /\ Cardinality(InFlight) <= 1
    /\ \A i \in 1..Len(submissions) : submissions[i].coords \in Positions

\* A second submission is in flight, the first one having failed, and the
\* modal has been closed meanwhile.
C14_Witness ==
    /\ Len(submissions) >= 2
    /\ InFlight = {Len(submissions)}
    /\ ~rmOpen
    /\ rmLoading

-----------------------------------------------------------------------------
(* Properties of SimulatorPanel                                            *)

\* C15: when the response of a run is handled and every baseline point has
\* a projected point, the chart data has one row per baseline point, in
\* order, row i pairing baseline[i].infected with projected[i].infected
\* under the day label of baseline[i]; when the projected curve is shorter
\* than the baseline the chart data is unchanged; loading is false again.
C15_CurvesPairedDayByDay ==
    [][simRequest.status = "answered" /\ simRequest'.status = "idle" =>
          LET result == simRequest.result
          IN  /\ simLoading' = FALSE
              /\ (result.parsed /\ result.hasCurves) =>
                    IF Len(result.projected) < Len(result.baseline)
                    THEN simData' = simData
                    ELSE /\ simData'[1] = "rows"
                         /\ Len(simData'[2]) = Len(result.baseline)
                         /\ \A i \in 1..Len(result.baseline) :
                               /\ simData'[2][i].day = <<"Day", result.baseline[i].day>>
                               /\ simData'[2][i].baseline = result.baseline[i].infected
                               /\ simData'[2][i].projected = result.projected[i].infected
      ]_vars

\* A run with a shorter projected curve was handled after a run that filled
\* the chart with rows whose two values differ.
C15_Witness ==
    /\ simData[1] = "rows"
    /\ Len(simData[2]) = MaxDays
    /\ \E i \in 1..Len(simData[2]) : simData[2][i].baseline # simData[2][i].projected
    /\ simRequest.status = "answered"
    /\ simRequest.result.hasCurves
    /\ Len(simRequest.result.projected) < Len(simRequest.result.baseline)

-----------------------------------------------------------------------------
(* Properties of PredictionChart                                           *)

\* C16: the chart holds one label and one value per received point, in
\* order: the label is the date part of ds when ds is present, else date,
\* else admission_date; the value is yhat when the point has a yhat field
\* (0 included), else value, else 0.
C16_PointsNormalized ==
    (chartRequest.status = "done" /\ chartRequest.reply.kind = "array") =>
        LET ps == chartRequest.reply.points
            chart == chartData[2]
        IN  /\ chartData[1] = "chart"
            /\ Len(chart.labels) = Len(ps)
            /\ Len(chart.data) = Len(ps)
            /\ \A i \in 1..Len(ps) :
                  /\ chart.labels[i] =
                        IF ps[i].ds # Absent THEN <<ps[i].ds[1]>>
                        ELSE IF ps[i].date # Absent THEN ps[i].date
                        ELSE ps[i].admission_date
                  /\ chart.data[i] =
                        IF ps[i].yhat # Null THEN ps[i].yhat
                        ELSE IF ps[i].value # Null THEN ps[i].value
                        ELSE 0

-----------------------------------------------------------------------------
(* Properties of the alerts                                                *)

SameKey(a, b) == a.scope = b.scope /\ a.rule = b.rule

KeyOf(a) == [scope |-> a.scope, rule |-> a.rule]

\* The condition of alert a held in every cycle from cycle t to its own.
PersistedSince(a, t) == \A u \in t..a.created_at : HeldAt(alertHistory, KeyOf(a), u)

\* In a list of alerts, a later alert for the same (scope, rule) was raised
\* in a later cycle, and either a cooldown after the earlier one or after a
\* cycle in which the condition did not hold.
Deduplicated(list) ==
    \A i, j \in 1..Len(list) :
        (i < j /\ SameKey(list[i], list[j])) =>
            /\ list[i].created_at < list[j].created_at
            /\ \/ list[j].created_at - list[i].created_at >= Cooldown
               \/ ~PersistedSince(list[j], list[i].created_at)

\* An alert of the list was raised in a cycle where its condition held and
\* either had not held the cycle before or no alert for the same
\* (scope, rule) was raised during the cooldown before it.
RaisedForCause(list) ==
    \A j \in 1..Len(list) :
        /\ HeldAt(alertHistory, KeyOf(list[j]), list[j].created_at)
        /\ \/ ~HeldAt(alertHistory, KeyOf(list[j]), list[j].created_at - 1)
           \/ \A i \in 1..Len(serverAlerts) :
                 (SameKey(serverAlerts[i], list[j]) /\ serverAlerts[i].alert_id # list[j].alert_id)
                    => \/ serverAlerts[i].created_at > list[j].created_at
                       \/ list[j].created_at - serverAlerts[i].created_at >= Cooldown

-----------------------------------------------------------------------------
(* Properties of the Report Trust Scorer                                   *)

-----------------------------------------------------------------------------
(* Properties of SymptomChecker                                            *)

\* C19: the result shown is High whenever difficulty breathing is checked,
\* and whenever contact and fever are both checked.
C19_HighForSevereOrExposed ==
    scStep = "result" =>
        ((scAnswers.breathing \/ (scAnswers.contact /\ scAnswers.fever)) => scRisk = "High")

-----------------------------------------------------------------------------
(* Properties of the HospitalPortal mount effect                           *)

\* C20: a portal mounted without a stored token has redirected to /login;
\* one mounted with a token and a role other than admin has redirected to
\* /; in both cases it has called none of fetchData, checkAlerts,
\* fetchProfile, fetchKey and started no interval.  One mounted with a
\* token and role admin has started exactly one interval, which is live
\* while it is mounted; no interval is live once the portal is unmounted.
C20_PortalGuardedOnMount ==
    /\ portal.mounted =>
          /\ portal.t = "none" =>
                portal.route = "/login" /\ portal.calls = NoCalls /\ portal.started = 0
          /\ (portal.t # "none" /\ portal.role # "admin") =>
                portal.route = "/" /\ portal.calls = NoCalls /\ portal.started = 0
          /\ (portal.t # "none" /\ portal.role = "admin") =>
                portal.route = "none" /\ portal.started = 1
          /\ portalLive = portal.started
    /\ ~portal.mounted => portalLive = 0

\* The portal is mounted for an admin again, after a mount that was denied,
\* and its interval has ticked.
C20_Witness ==
    /\ portal.mounted
    /\ portal.role = "admin"
    /\ portal.t # "none"
    /\ portalLive = 1
    /\ portal.calls.fetchData > 1
    /\ portal.calls.fetchKey = 1
    /\ storage.token = "none"

-----------------------------------------------------------------------------
(* C21: LoginPage.handleSubmit stores credentials only after an OK login    *)

\* A step in which a running handleSubmit completes.
SubmitCompleted == lpRequest.status = "answered" /\ lpRequest'.status = "idle"

\* C21: a completed submit writes token, role and username to localStorage
\* only when the response to a login request was OK, and then it writes the
\* token and role of the response and the submitted username; a failed
\* request and a successful registration leave localStorage alone; a failure
\* sets the error message; a successful registration switches to login mode
\* with the password cleared; loading is false after every completed submit.
C21_CredentialsOnlyAfterOkLogin ==
    [][SubmitCompleted =>
         LET req == lpRequest
             reply == lpRequest.reply
             failed == ~(reply.fetched /\ reply.parsable /\ reply.ok)
         IN  /\ (lpStorage' # lpStorage) => (req.isLogin /\ reply.ok)
             /\ (req.isLogin /\ ~failed) =>
                    lpStorage' = [token |-> reply.access_token, role |-> reply.role,
                                  username |-> req.username]
             /\ (failed \/ ~req.isLogin) => lpStorage' = lpStorage
             /\ failed => lpError' # ""
             /\ (~failed /\ ~req.isLogin) => (lpIsLogin' /\ lpPassword' = "")
             /\ ~lpLoading']_vars

\* An OK response to a login request stored the credentials and sent the
\* browser to the start page.
C21_Witness ==
    /\ lpStorage = [token |-> "jwt-a", role |-> "admin", username |-> "alice"]
    /\ lpLocation = "/"
    /\ lpSuccessMsg = ""
    /\ ~lpLoading

-----------------------------------------------------------------------------
(* C22: fetchData logs out on a 401 without a partial update                *)

\* C22: when an invocation of fetchData resumes with three responses of
\* which any has status 401, the token is removed from localStorage, the
\* user is sent to /login, entries, capacity and analytics are all left
\* unchanged and the invocation sets nothing afterwards (it has returned);
\* and whenever an invocation ends, loading is false.
C22_LogoutWithoutPartialUpdate ==
    [][\A c \in Invocations :
         /\ ( /\ fdCalls[c].pc = "answered"
              /\ fdCalls'[c].pc # "answered"
              /\ fdCalls[c].reply.fetched
              /\ \E i \in 1..3 : fdCalls[c].reply.status[i] = 401 )
            => /\ fdToken' = "none"
               /\ fdRoute' = "/login"
               /\ fdEntries' = fdEntries
               /\ fdCapacity' = fdCapacity
               /\ fdAnalytics' = fdAnalytics
               /\ fdCalls'[c].pc = "idle"
         /\ (fdCalls[c].pc \in {"answered", "json"} /\ fdCalls'[c].pc = "idle")
            => ~fdLoading']_vars

\* The session expired after an earlier poll had filled the three states: a
\* 401 came with two OK responses, and the states still hold the earlier data.
C22_Witness ==
    /\ fdToken = "none"
    /\ fdRoute = "/login"
    /\ fdEntries = 1 /\ fdCapacity = 1 /\ fdAnalytics = 1
    /\ ~fdLoading
    /\ \A c \in Invocations : fdCalls[c].pc = "idle"

-----------------------------------------------------------------------------
(* C23: the time-lapse playback terminates                                  *)

\* C23: every tick of the playback advances sliderIndex by exactly one while
\* it is below dates.length - 1 and leaves it alone at dates.length - 1; once
\* the effect has run at the last date isPlaying is false and no interval is
\* left to change sliderIndex; a playback that runs is eventually stopped;
\* and pressing play (isPlaying false) at the last date sets sliderIndex to 0
\* and isPlaying to true.
C23_PlaybackTerminates ==
    /\ [][Tick => sliderIndex' = IF sliderIndex < Len(dates) - 1
                                 THEN sliderIndex + 1
                                 ELSE sliderIndex]_vars
    /\ []((~effectDue /\ sliderIndex >= Len(dates) - 1) => (~isPlaying /\ ~playInterval))
    /\ (isPlaying ~> ~isPlaying)
    /\ [][(PlayButton /\ ~isPlaying /\ sliderIndex >= Len(dates) - 1)
          => (sliderIndex' = 0 /\ isPlaying')]_vars

\* A tick of a running playback has just reached the last of four dates;
\* the effect that stops the playback is due.
C23_Witness ==
    /\ Len(dates) = 4
    /\ sliderIndex = 3
    /\ isPlaying /\ playInterval /\ effectDue

-----------------------------------------------------------------------------
(* C24: sliderIndex stays within the dates                                  *)

\* C24: sliderIndex never exceeds dates.length - 1, and once a non-empty
\* history has loaded it is an index of dates: 0 <= sliderIndex <=
\* dates.length - 1.
C24_SliderIndexInRange ==
    /\ sliderIndex <= Len(dates) - 1
    /\ (historyFetch = "done" /\ Len(dates) > 0) => sliderIndex \in 0..(Len(dates) - 1)

\* A playback restarted from the first of three dates is running.
C24_Witness ==
    /\ Len(dates) = 3
    /\ sliderIndex = 0
    /\ isPlaying /\ playInterval /\ ~effectDue

-----------------------------------------------------------------------------
(* C27: the simulator panel is never opened from the dashboard              *)

\* C27: on the dashboard showSim is always false, so the controls of
\* SimulatorPanel are never rendered and runSimulation is never invoked: no
\* simulation request is ever sent and the panel never loads.
C27_SimulatorNeverOpened ==
    /\ ~showSim
    /\ "Run Projection" \notin ModalControls
    /\ simRequest.status = "idle"
    /\ ~simLoading

\* The two other modals are open over a loaded history, the simulator is not.
C27_Witness ==
    /\ scOpen /\ rmOpen
    /\ ~showSim
    /\ Len(dates) > 0

-----------------------------------------------------------------------------
(* C25: the hospital search is debounced                                    *)

\* C25: a search request is sent only for the current query, longer than 3
\* characters and unchanged for 500 ms; at most one debounce timer is
\* pending and it is the one of the current query (every change cancelled
\* the timer before); and a timer that fires for a query of 3 characters or
\* fewer fires 500 ms after the last change, clears the search results and
\* sends no request.
C25_SearchDebounced ==
    /\ [][\A r \in searches' \ searches :
            /\ Len(r.query) > 3
            /\ r.query = searchQuery
            /\ sinceChange >= Debounce]_vars
    /\ [](Cardinality(timers) <= 1 /\ \A t \in timers : t.query = searchQuery)
    /\ [][\A t \in timers :
            (timers' = timers \ {t} /\ Len(t.query) <= 3)
            => /\ sinceChange >= Debounce
               /\ searchResults' = <<>>
               /\ searches' = searches
               /\ searchCount' = searchCount]_vars

\* A search for a four-character query was sent and has ended; the query has
\* since been cut to three characters and its timer has fired: the results
\* are cleared and no second request was sent.
C25_Witness ==
    /\ searchQuery = "abc"
    /\ searchCount = 1
    /\ searches = {}
    /\ timers = {}
    /\ searchResults = <<>>
    /\ sinceChange = Debounce

-----------------------------------------------------------------------------
(* C26: ERPSimulator keeps one interval while simulating and none otherwise *)

\* C26: while ERPSimulator is mounted exactly one interval is active when
\* isSimulating is true and none when it is false, whatever the sequence of
\* start/stop clicks; after an unmount none is active; and a patient record
\* is generated only while the simulation runs on a mounted page.
C26_OneIntervalWhileSimulating ==
    /\ [](erpMounted => Cardinality(liveIntervals) = (IF isSimulating THEN 1 ELSE 0))
    /\ [](~erpMounted => liveIntervals = {})
    /\ [][generated' # generated => (isSimulating /\ erpMounted)]_vars

\* The third simulation was started after two stops and has generated
\* records; one interval is active.
C26_Witness ==
    /\ erpMounted
    /\ isSimulating
    /\ started = 3
    /\ generated = 3
    /\ Cardinality(liveIntervals) = 1

=============================================================================
